---- MODULE Spec2Model ----
(***************************************************************************)
(* ArtifactRepository: a content-addressable object store.                 *)
(*                                                                         *)
(*   common/src/lib.rs   Hash, ObjectType, Mode, header parsing            *)
(*   server/src/main.rs  PUT /object/{id}, GET /object/{id}                *)
(*   client/src/main.rs  commit / restore / cat on a local cache           *)
(*                                                                         *)
(* Bytes and characters are numbers 0..255; a string or a byte buffer is   *)
(* a sequence of them ("blob" is <<98, 108, 111, 98>>).  An Option is a    *)
(* sequence of length at most one: None is <<>>, Some(x) is <<x>>.         *)
(***************************************************************************)
EXTENDS Integers, Sequences, FiniteSets, TLC

(***************************************************************************)
(* Bounds of the model.                                                    *)
(***************************************************************************)
\* Longest request body (in bytes) a client transmits.
MaxBodyLen == 2
\* Requests served in one run of the server.
MaxRequests == 2
\* Requests the server handles at once.
MaxTasks == 2
\* Capacity of the upload's BufWriter (std's DEFAULT_BUF_SIZE, scaled down
\* so that an upload can overflow it: the longest prefix fits, a prefix and
\* a full body do not).
BufCap == 9
\* Commits in one run of the client.
MaxCommits == 2
\* The last reading of the clock (in seconds).
MaxClock == 1
\* Entries in the committed directory.
MaxEntries == 2
\* Entries at the root of a directory committed in the runs that vary the
\* client's arguments.
MaxArgEntries == 1

(***************************************************************************)
(* Option                                                                  *)
(***************************************************************************)
None == <<>>
Some(x) == <<x>>
IsSome(o) == o # <<>>
Unwrap(o) == o[1]

(***************************************************************************)
(* Characters                                                              *)
(***************************************************************************)
NUL == 0
SPACE == 32
PLUS == 43
DIGIT0 == 48
UPPER_A == 65
LOWER_A == 97

IsDigit(c) == c >= DIGIT0 /\ c <= DIGIT0 + 9

\* U+FFFD REPLACEMENT CHARACTER, encoded.
REPLACEMENT == <<239, 191, 189>>

\* str::from_utf8 on the model's bytes.  Beside the ASCII range the model
\* feeds 0xFF, which is part of no UTF-8 sequence, and the encoded U+FFFD.
from_utf8_ok(s) ==
    \A i \in 1..Len(s) :
        \/ s[i] < 128
        \/ \E j \in {i - 2, i - 1, i} :
              j >= 1 /\ j + 2 <= Len(s) /\ SubSeq(s, j, j + 2) = REPLACEMENT

\* OsStr::to_string_lossy: what is no UTF-8 becomes U+FFFD.
RECURSIVE to_string_lossy(_)
to_string_lossy(s) ==
    IF s = <<>> THEN <<>>
    ELSE IF s[1] < 128 THEN <<s[1]>> \o to_string_lossy(Tail(s))
    ELSE IF Len(s) >= 3 /\ SubSeq(s, 1, 3) = REPLACEMENT
    THEN REPLACEMENT \o to_string_lossy(SubSeq(s, 4, Len(s)))
    ELSE REPLACEMENT \o to_string_lossy(Tail(s))

\* The index of the first element of s equal to c, 0 when there is none
\* (Iterator::position, str::find).
position(s, c) ==
    IF \E i \in 1..Len(s) : s[i] = c
    THEN CHOOSE i \in 1..Len(s) : s[i] = c /\ \A j \in 1..(i - 1) : s[j] # c
    ELSE 0

\* str::split_once(c): Some(<<before, after>>) around the first c.
split_once(s, c) ==
    LET i == position(s, c)
    IN  IF i = 0 THEN None
        ELSE Some(<<SubSeq(s, 1, i - 1), SubSeq(s, i + 1, Len(s))>>)

\* u64::to_string: the decimal digits, no sign, no leading zero.
RECURSIVE to_string(_)
to_string(n) ==
    IF n < 10 THEN <<DIGIT0 + n>>
    ELSE Append(to_string(n \div 10), DIGIT0 + (n % 10))

RECURSIVE DigitsValue(_)
DigitsValue(s) ==
    IF s = <<>> THEN 0
    ELSE 10 * DigitsValue(SubSeq(s, 1, Len(s) - 1)) + (s[Len(s)] - DIGIT0)

\* str::parse::<u64>(): an optional '+', then one or more decimal digits.
\* (The model's size strings are far too short to overflow 64 bits.)
parse_u64(s) ==
    LET d == IF s # <<>> /\ s[1] = PLUS THEN Tail(s) ELSE s
    IN  IF d = <<>> \/ \E i \in 1..Len(d) : ~IsDigit(d[i])
        THEN None
        ELSE Some(DigitsValue(d))

(***************************************************************************)
(* common: ObjectType                                                      *)
(***************************************************************************)
INDEX_KEY == <<105, 110, 100, 101, 120>>
TREE_KEY == <<116, 114, 101, 101>>
BLOB_KEY == <<98, 108, 111, 98>>

ObjectType == {"Blob", "Tree", "Index"}

ObjectType_from_str(value) ==
    IF value = BLOB_KEY THEN Some("Blob")
    ELSE IF value = TREE_KEY THEN Some("Tree")
    ELSE IF value = INDEX_KEY THEN Some("Index")
    ELSE None

ObjectType_to_str(t) ==
    CASE t = "Blob" -> BLOB_KEY
      [] t = "Index" -> INDEX_KEY
      [] t = "Tree" -> TREE_KEY

\* Some(<<object_type, size>>) when the slice is "<keyword> <decimal>".
read_header_from_slice(slice) ==
    IF ~from_utf8_ok(slice) THEN None
    ELSE LET parts == split_once(slice, SPACE)
         IN  IF parts = None THEN None
             ELSE LET t == ObjectType_from_str(Unwrap(parts)[1])
                      n == parse_u64(Unwrap(parts)[2])
                  IN  IF t = None \/ n = None THEN None
                      ELSE Some(<<Unwrap(t), Unwrap(n)>>)

get_object_prefix(object_type, object_size) ==
    ObjectType_to_str(object_type) \o <<SPACE>> \o to_string(object_size) \o <<NUL>>

(***************************************************************************)
(* common: Hash                                                            *)
(***************************************************************************)
\* Length of the textual form, of the raw digest, and of the shard name.
HASH_HEX_LEN == 128
HASH_LEN == 64
SHARD_LEN == 2

\* The value of one hexadecimal digit, -1 for any other character
\* (hex::decode accepts both cases).
HexVal(c) ==
    IF IsDigit(c) THEN c - DIGIT0
    ELSE IF c >= LOWER_A /\ c <= LOWER_A + 5 THEN c - LOWER_A + 10
    ELSE IF c >= UPPER_A /\ c <= UPPER_A + 5 THEN c - UPPER_A + 10
    ELSE -1

\* hex::decode: None on an odd length or a character that is no hex digit.
hex_decode(s) ==
    IF Len(s) % 2 # 0 \/ \E i \in 1..Len(s) : HexVal(s[i]) < 0
    THEN None
    ELSE Some([i \in 1..(Len(s) \div 2) |->
                  16 * HexVal(s[2 * i - 1]) + HexVal(s[2 * i])] \o <<>>)

HexChar(v) == IF v < 10 THEN DIGIT0 + v ELSE LOWER_A + (v - 10)

\* hex::encode: two lower-case digits per byte.
hex_encode(bytes) ==
    [i \in 1..(2 * Len(bytes)) |->
        IF i % 2 = 1 THEN HexChar(bytes[(i + 1) \div 2] \div 16)
        ELSE HexChar(bytes[i \div 2] % 16)] \o <<>>

\* Hash::from_string: the text as given is kept beside the decoded bytes.
from_string(value) ==
    CHOOSE res \in
      { IF Len(v) # HASH_HEX_LEN THEN None
        ELSE CHOOSE r \in
               { IF hash = None THEN None
                 ELSE IF Len(Unwrap(hash)) # HASH_LEN THEN None
                 ELSE Some([hash |-> Unwrap(hash), hash_string |-> v]) :
                   hash \in {hex_decode(v)} } : TRUE :
          v \in {value} } : TRUE

\* From<[u8; 64]> for Hash.
Hash_from_bytes(value) == [hash |-> value, hash_string |-> hex_encode(value)]

\* PartialEq for Hash: the raw bytes alone.
Hash_eq(a, b) == a.hash = b.hash

get_parts(h) ==
    <<SubSeq(h.hash_string, 1, SHARD_LEN),
      SubSeq(h.hash_string, SHARD_LEN + 1, Len(h.hash_string))>>

\* Hash::get_path: <cache_dir>/<dir>/<file>; a path below the cache root is
\* the pair <<dir, file>>.
get_path(h) == get_parts(h)

(***************************************************************************)
(* Sha512.  The digest is a fixed-width function of the bytes fed to the   *)
(* hasher: a polynomial hash spread over HASH_LEN bytes.  DigestModulus    *)
(* and DigestBase are chosen so that it is collision-free on every content *)
(* the bounded model can build (NoDigestCollision below).                  *)
(***************************************************************************)
DigestModulus == 8388593
DigestBase == 251

\* The bytes of one block taken in, one after the other.
RECURSIVE PolyStep(_, _)
PolyStep(h, bytes) ==
    IF bytes = <<>> THEN h
    ELSE PolyStep((h * DigestBase + bytes[1] + 1) % DigestModulus, Tail(bytes))

\* Block after block (of 16 bytes), from the state h.
RECURSIVE PolyHashFrom(_, _)
PolyHashFrom(h, bytes) ==
    IF Len(bytes) <= 16 THEN PolyStep(h, bytes)
    ELSE CHOOSE r \in
           { PolyHashFrom(x, SubSeq(bytes, 17, Len(bytes))) :
               x \in {PolyStep(h, SubSeq(bytes, 1, 16))} } : TRUE

PolyHash(bytes) == PolyHashFrom(7, bytes)

\* Sha512::finalize_fixed: HASH_LEN bytes.
finalize_fixed(bytes) ==
    LET h == PolyHash(bytes)
    IN  [i \in 1..HASH_LEN |->
            IF i = 1 THEN h % 256
            ELSE IF i = 2 THEN (h \div 256) % 256
            ELSE IF i = 3 THEN (h \div 65536) % 256
            ELSE (h + 37 * i) % 256] \o <<>>

\* From<Sha512> for Hash.
Hash_from_hasher(hasher) == Hash_from_bytes(finalize_fixed(hasher))

(***************************************************************************)
(* The file system below the cache root.                                   *)
(*   dirs    the shard directories that exist                              *)
(*   files   path |-> inode, for every path at which a file exists         *)
(*   inodes  inode |-> content, for every inode that is linked or open     *)
(* A file that is unlinked while a request holds it open lives on until    *)
(* that request closes it; writes go to the descriptor's own offset.       *)
(***************************************************************************)
VARIABLES dirs, files, inodes

(***************************************************************************)
(* The server.                                                             *)
(*   reqs      slot |-> the request handled in that slot (one task each)   *)
(*   served    the number of requests accepted so far                      *)
(*   presence  the INDEXES / TREES / BLOBS sets filled by read_cache       *)
(***************************************************************************)
VARIABLES reqs, served, presence

(***************************************************************************)
(* The client.                                                             *)
(*   source  the directory that is committed: its entries, in the order    *)
(*           read_dir yields them                                          *)
(*   now     the clock Utc::now() reads                                    *)
(*   log     what the commits so far printed and wrote                     *)
(*   dest    the path restore writes to: whether it exists, whether it is  *)
(*           a directory, its entries; and how the one restore ended       *)
(*   cat     how the one run of cat ended, and what it printed             *)
(***************************************************************************)
VARIABLES source, now, log, dest, cat

(***************************************************************************)
(* Two Hash values, however they were built.                               *)
(***************************************************************************)
VARIABLES ha, hb

fsVars == <<dirs, files, inodes>>
serverVars == <<reqs, served, presence>>
clientVars == <<source, now, log, dest, cat>>
hashVars == <<ha, hb>>

\* exists() with its sense inverted.
path_is_absent(path) == path \notin DOMAIN files

path_exists(path) == path \in DOMAIN files

Zeros(n) == [i \in 1..n |-> 0]

\* write(2) of data at byte offset pos (0-based) of a file with this content.
WriteAt(content, pos, data) ==
    LET padded == IF Len(content) < pos
                  THEN content \o Zeros(pos - Len(content))
                  ELSE content
    IN  SubSeq(padded, 1, pos) \o data
          \o SubSeq(padded, pos + Len(data) + 1, Len(padded))

\* read(2) at byte offset pos, returning at most n bytes: what the file
\* holds from there on, cut at n.
ReadFrom(content, pos, n) ==
    SubSeq(content, pos + 1, IF pos + n < Len(content) THEN pos + n ELSE Len(content))

FreshInode == CHOOSE n \in 1..(Cardinality(DOMAIN inodes) + 1) : n \notin DOMAIN inodes

Range(f) == {f[x] : x \in DOMAIN f}

\* The inodes that stay: those a path names and those a request holds open.
Retain(ino, fls, rqs) ==
    LET live == Range(fls) \cup {rqs[s].fd : s \in DOMAIN rqs}
    IN  [n \in (DOMAIN ino) \cap live |-> ino[n]]

\* A removal that takes every file of the store with it.
Unlink_all(fls, path) == [p \in {} |-> 0]

\* fls without the entry for path (unlink).
Unlink(fls, path) == [p \in (DOMAIN fls) \ {path} |-> fls[p]]

\* fls with path naming inode n.
Link(fls, path, n) == [p \in (DOMAIN fls) \cup {path} |-> IF p = path THEN n ELSE fls[p]]

(***************************************************************************)
(* std::io::BufWriter over the destination file: [buf, out] is the buffer  *)
(* afterwards and the bytes handed to write(2) on the way.                 *)
(***************************************************************************)
BufWriter_write_all(buf, data) ==
    IF Len(data) < BufCap - Len(buf)
    THEN [buf |-> buf \o data, out |-> <<>>]
    ELSE LET flushed == Len(data) > BufCap - Len(buf)
             kept == IF flushed THEN <<>> ELSE buf
             out1 == IF flushed THEN buf ELSE <<>>
         IN  IF Len(data) >= BufCap
             THEN [buf |-> kept, out |-> out1 \o data]
             ELSE [buf |-> kept \o data, out |-> out1]

\* BufWriter::flush, and BufWriter's drop.
BufWriter_flush(buf) == [buf |-> <<>>, out |-> buf]

(***************************************************************************)
(* common: read_header_from_file.  read_until(0) takes the bytes up to and *)
(* including the first NUL, or all of them when there is none; the last    *)
(* byte taken is then cut off, whatever it is.  On an empty file the cut   *)
(* is out of range and the call panics.  [panicked, header]: header is the *)
(* Option returned when the call returns.                                  *)
(***************************************************************************)
read_until(content, delim) ==
    LET i == position(content, delim)
    IN  IF i = 0 THEN content ELSE SubSeq(content, 1, i)

read_header_from_file(content) ==
    LET vec == read_until(content, NUL)
    IN  IF vec = <<>> THEN [panicked |-> TRUE, header |-> None]
        ELSE [panicked |-> FALSE,
              header |-> read_header_from_slice(SubSeq(vec, 1, Len(vec) - 1))]

(***************************************************************************)
(* What clients send.                                                      *)
(***************************************************************************)
BodyBytes == {NUL, LOWER_A}

\* The bodies a client transmits.
Bodies == UNION {[1..k -> BodyBytes] : k \in 0..MaxBodyLen}

\* An object, <<kind, body>>, as stored: its content, its hash, its name.
TargetContent(t) == get_object_prefix(t[1], Len(t[2])) \o t[2]
TargetHash(t) == Hash_from_hasher(TargetContent(t))
TargetId(t) == TargetHash(t).hash_string

\* Names that are no hash: 127 characters, 129 characters, and 128 with a
\* 'g' among them.
ShortId == SubSeq(TargetId(<<"Tree", <<>>>>), 1, HASH_HEX_LEN - 1)
LongId == TargetId(<<"Tree", <<>>>>) \o <<DIGIT0>>
NonHexId == [TargetId(<<"Tree", <<>>>>) EXCEPT ![HASH_HEX_LEN] = 103]

\* What the requests of a run are drawn from: the objects whose hashes
\* they name, the names that are no hash, the Object-Type and Object-Size
\* headers (absent, "x", or well-formed), the bodies, and the objects a
\* store may hold at startup.
SeqInputs ==
    [targets |-> { <<"Blob", <<LOWER_A>>>>, <<"Tree", <<>>>>,
                   <<"Index", <<NUL, LOWER_A>>>> },
     invalid |-> {NonHexId, LongId},
     types |-> {Some(<<120>>)} \cup {Some(ObjectType_to_str(t)) : t \in ObjectType},
     sizes |-> {None} \cup {Some(to_string(n)) : n \in 0..MaxBodyLen},
     bodies |-> {b \in Bodies : Len(b) = MaxBodyLen => b[1] = NUL},
     stored |-> {},
     reads |-> "whole"]

\* Concurrent runs draw from less: two index objects, of one and two bytes.
ConcInputs ==
    [targets |-> { <<"Index", <<LOWER_A>>>>, <<"Index", <<NUL, LOWER_A>>>> },
     invalid |-> {ShortId, NonHexId},
     types |-> {None, Some(<<120>>), Some(INDEX_KEY)},
     sizes |-> {None, Some(<<120>>)} \cup {Some(to_string(n)) : n \in 1..MaxBodyLen},
     bodies |-> Bodies,
     stored |-> {<<"Index", <<LOWER_A>>>>},
     reads |-> "whole"]

\* Downloads alone, from a store that holds one object, where a read of
\* the file returns any number of the bytes that are left.
ChunkInputs ==
    [targets |-> { <<"Blob", <<LOWER_A, NUL, LOWER_A>>>>, <<"Index", <<NUL>>>>,
                   <<"Tree", <<>>>> },
     invalid |-> {NonHexId},
     types |-> {}, sizes |-> {}, bodies |-> {},
     stored |-> { <<"Blob", <<LOWER_A, NUL, LOWER_A>>>>, <<"Index", <<NUL>>>> },
     reads |-> "any"]

\* The numbers of bytes a read of the file may return: as many as the file
\* holds (the files of the model are shorter than the reader's 8 KiB
\* buffer), or any number from one byte on.
ReadSizes(in, content) ==
    IF in.reads = "whole" \/ content = <<>> THEN {Len(content)} ELSE 1..Len(content)

ObjectIds(in) == {TargetId(t) : t \in in.targets} \cup in.invalid

(***************************************************************************)
(* Requests.  reqs[i] is the record of the i-th request to arrive: idle    *)
(* before it arrives, done once it is answered.                            *)
(***************************************************************************)
Slots == 1..MaxRequests

Idle ==
    [op |-> "idle", pc |-> "idle", seq |-> 0, object_id |-> <<>>,
     hdrType |-> None, hdrSize |-> None, payload |-> <<>>, hash |-> None,
     object_type |-> "", object_size |-> 0,
     fd |-> 0, pos |-> 0, buf |-> <<>>, hasher |-> <<>>, length |-> 0,
     err |-> "", codec |-> None,
     eof |-> FALSE, is_readable |-> FALSE, has_errored |-> FALSE,
     status |-> 0, outcome |-> "", rtype |-> None, rsize |-> None,
     body |-> <<>>]

StatusCode_OK == 200
StatusCode_CREATED == 201
StatusCode_NO_CONTENT == 204
StatusCode_BAD_REQUEST == 400
StatusCode_INTERNAL_SERVER_ERROR == 500

Active(r) == r.pc \notin {"idle", "done"}

\* A response that carries an Object-Size header whatever its status.
Respond_with_size(r, status, outcome) ==
    [r EXCEPT !.pc = "done", !.status = status, !.outcome = outcome,
              !.fd = 0, !.pos = 0, !.buf = <<>>, !.rsize = Some(<<DIGIT0>>)]

\* The response is out and every handle of the request is dropped.
Respond(r, status, outcome) ==
    [r EXCEPT !.pc = "done", !.status = status, !.outcome = outcome,
              !.fd = 0, !.pos = 0, !.buf = <<>>]

\* The path the request addresses (its hash parsed).
object_path(r) == get_path(Unwrap(r.hash))

\* ErrorResult::get_response.
get_response(r, err) ==
    CASE err = "HashDoesntMatch" -> Respond(r, StatusCode_BAD_REQUEST, err)
      [] err = "LengthDoesntMatch" -> Respond(r, StatusCode_BAD_REQUEST, err)
      [] err = "InternalError" -> Respond(r, StatusCode_INTERNAL_SERVER_ERROR, err)

\* A request arrives and is given a task, when fewer than maxActive run.
Accept(maxActive, r) ==
    /\ served < MaxRequests
    /\ Cardinality({s \in Slots : Active(reqs[s])}) < maxActive
    /\ reqs' = [reqs EXCEPT ![served + 1] = [r EXCEPT !.seq = served + 1]]
    /\ served' = served + 1
    /\ UNCHANGED <<dirs, files, inodes, presence, clientVars, hashVars>>

PutArrives(maxActive, in) ==
    \E id \in ObjectIds(in), ht \in in.types, hs \in in.sizes :
        Accept(maxActive, [Idle EXCEPT !.op = "put", !.pc = "check",
                                       !.object_id = id, !.hdrType = ht, !.hdrSize = hs])

(***************************************************************************)
(* put_object, to the call of read_body_to_file.                           *)
(***************************************************************************)
\* A put_object that takes the body stream before it looks at the headers.
put_object_body_first(r, data_stream) ==
    LET hash == from_string(r.object_id)
        r1 == [r EXCEPT !.hash = hash, !.payload = data_stream]
        t == IF r.hdrType = None THEN None ELSE ObjectType_from_str(Unwrap(r.hdrType))
        n == IF r.hdrSize = None THEN None ELSE parse_u64(Unwrap(r.hdrSize))
    IN  IF hash = None
        THEN Respond(r1, StatusCode_BAD_REQUEST, "InvalidHash")
        ELSE IF path_exists(get_path(Unwrap(hash)))
        THEN Respond(r1, StatusCode_OK, "AlreadyExists")
        ELSE IF r.hdrType = None \/ t = None \/ r.hdrSize = None \/ n = None
        THEN Respond(r1, StatusCode_BAD_REQUEST, "MissingType")
        ELSE [r1 EXCEPT !.pc = "assert", !.object_type = Unwrap(t),
                        !.object_size = Unwrap(n)]

put_object_check(r, data_stream) ==
    LET hash == from_string(r.object_id)
        r1 == [r EXCEPT !.hash = hash]
        t == IF r.hdrType = None THEN None ELSE ObjectType_from_str(Unwrap(r.hdrType))
        n == IF r.hdrSize = None THEN None ELSE parse_u64(Unwrap(r.hdrSize))
    IN  IF hash = None
        THEN Respond(r1, StatusCode_BAD_REQUEST, "InvalidHash")
        ELSE IF path_exists(get_path(Unwrap(hash)))
        THEN Respond(r1, StatusCode_OK, "AlreadyExists")
        ELSE IF r.hdrType = None
        THEN Respond(r1, StatusCode_BAD_REQUEST, "MissingType")
        ELSE IF t = None
        THEN Respond(r1, StatusCode_BAD_REQUEST, "InvalidType")
        ELSE IF r.hdrSize = None
        THEN Respond(r1, StatusCode_BAD_REQUEST, "MissingSize")
        ELSE IF n = None
        THEN Respond(r1, StatusCode_BAD_REQUEST, "InvalidSize")
        ELSE [r1 EXCEPT !.pc = "assert", !.object_type = Unwrap(t),
                        !.object_size = Unwrap(n), !.payload = data_stream]

\* The request's body stream enters the model where put_object takes it
\* (line 183): payload is what the client transmits if it is not cut off.
PutCheck(s, in) ==
    /\ reqs[s].op = "put" /\ reqs[s].pc = "check"
    /\ \E data_stream \in in.bodies :
          reqs' = [reqs EXCEPT ![s] = put_object_check(reqs[s], data_stream)]
    /\ UNCHANGED <<dirs, files, inodes, served, presence, clientVars, hashVars>>

(***************************************************************************)
(* read_body_to_file                                                       *)
(***************************************************************************)
\* assert!(!path.exists()): the task panics when the file is there.
PutAssert(s) ==
    /\ reqs[s].op = "put" /\ reqs[s].pc = "assert"
    /\ reqs' = [reqs EXCEPT ![s] =
                  IF path_exists(object_path(reqs[s]))
                  THEN Respond(reqs[s], 0, "Panicked")
                  ELSE [reqs[s] EXCEPT !.pc = "create"]]
    /\ UNCHANGED <<dirs, files, inodes, served, presence, clientVars, hashVars>>

\* File::create (the file is made, or opened and truncated; the call fails
\* when its directory is missing), then the prefix goes to the writer and
\* to the hasher.
PutCreate(s) ==
    LET r == reqs[s]
        path == object_path(r)
        prefix == get_object_prefix(r.object_type, r.object_size)
        n == IF path_exists(path) THEN files[path] ELSE FreshInode
        w == BufWriter_write_all(<<>>, prefix)
    IN  /\ r.op = "put" /\ r.pc = "create"
        /\ IF path[1] \notin dirs
           THEN /\ reqs' = [reqs EXCEPT ![s] = get_response(r, "InternalError")]
                /\ UNCHANGED <<files, inodes>>
           ELSE /\ files' = Link(files, path, n)
                /\ reqs' = [reqs EXCEPT ![s] =
                              [r EXCEPT !.pc = "stream", !.fd = n,
                                        !.pos = Len(w.out), !.buf = w.buf,
                                        !.hasher = prefix, !.length = 0]]
                /\ inodes' = [i \in (DOMAIN inodes) \cup {n} |->
                                 IF i = n THEN w.out ELSE inodes[i]]
        /\ UNCHANGED <<dirs, served, presence, clientVars, hashVars>>

\* The bytes written through descriptor fd at offset pos.
WriteFd(ino, fd, pos, data) ==
    IF data = <<>> THEN ino
    ELSE [ino EXCEPT ![fd] = WriteAt(ino[fd], pos, data)]

\* body.next() yields a chunk, the next k bytes of the body: hashed,
\* written, counted (lines 126-135).
PutChunk(s) ==
    LET r == reqs[s]
    IN  /\ r.op = "put" /\ r.pc = "stream"
        /\ \E k \in 1..(Len(r.payload) - r.length) :
              LET chunk == SubSeq(r.payload, r.length + 1, r.length + k)
                  w == BufWriter_write_all(r.buf, chunk)
              IN  /\ reqs' = [reqs EXCEPT ![s] =
                                [r EXCEPT !.hasher = r.hasher \o chunk,
                                          !.buf = w.buf,
                                          !.pos = r.pos + Len(w.out),
                                          !.length = r.length + Len(chunk)]]
                  /\ inodes' = WriteFd(inodes, r.fd, r.pos, w.out)
        /\ UNCHANGED <<dirs, files, served, presence, clientVars, hashVars>>

\* body.next() yields an error (the client went away, having transmitted
\* what was read so far): InternalError is returned; the writer is dropped,
\* which flushes it; the file stays.
PutChunkErr(s) ==
    LET r == reqs[s]
        w == BufWriter_flush(r.buf)
    IN  /\ r.op = "put" /\ r.pc = "stream"
        /\ reqs' = [reqs EXCEPT ![s] =
                      [get_response(r, "InternalError") EXCEPT
                          !.payload = SubSeq(r.payload, 1, r.length),
                          !.err = "StreamError"]]
        /\ inodes' = Retain(WriteFd(inodes, r.fd, r.pos, w.out), files, reqs')
        /\ UNCHANGED <<dirs, files, served, presence, clientVars, hashVars>>

\* The verdict once the stream has ended (lines 137-152).
Verdict(r) ==
    IF r.object_size # r.length THEN "LengthDoesntMatch"
    ELSE IF ~Hash_eq(Unwrap(r.hash), Hash_from_hasher(r.hasher)) THEN "HashDoesntMatch"
    ELSE "Ok"

\* An end of upload that enters the stored hash into the set of its kind.
PutEnd_inserts(s) ==
    LET r == reqs[s]
        w == BufWriter_flush(r.buf)
        v == Verdict(r)
    IN  /\ r.op = "put" /\ r.pc = "stream"
        /\ r.length = Len(r.payload)
        /\ reqs' = [reqs EXCEPT ![s] =
                      IF v = "Ok" THEN Respond(r, StatusCode_CREATED, "Created")
                      ELSE [r EXCEPT !.pc = "remove", !.err = v, !.buf = <<>>,
                                     !.pos = r.pos + Len(w.out)]]
        /\ inodes' = Retain(WriteFd(inodes, r.fd, r.pos, w.out), files, reqs')
        /\ presence' = IF v # "Ok" THEN presence
                       ELSE CASE r.object_type = "Index" ->
                                   [presence EXCEPT !.indexes = @ \cup {Unwrap(r.hash).hash}]
                              [] r.object_type = "Tree" ->
                                   [presence EXCEPT !.trees = @ \cup {Unwrap(r.hash).hash}]
                              [] r.object_type = "Blob" ->
                                   [presence EXCEPT !.blobs = @ \cup {Unwrap(r.hash).hash}]
        /\ UNCHANGED <<dirs, files, served, clientVars, hashVars>>

\* body.next() yields None.  On a mismatch the writer is flushed and the
\* file is removed next; otherwise Ok(()) is returned, the writer is
\* dropped (and so flushed) and put_object answers CREATED.
PutEnd(s) ==
    LET r == reqs[s]
        w == BufWriter_flush(r.buf)
        v == Verdict(r)
    IN  /\ r.op = "put" /\ r.pc = "stream"
        /\ r.length = Len(r.payload)
        /\ reqs' = [reqs EXCEPT ![s] =
                      IF v = "Ok" THEN Respond(r, StatusCode_CREATED, "Created")
                      ELSE [r EXCEPT !.pc = "remove", !.err = v, !.buf = <<>>,
                                     !.pos = r.pos + Len(w.out)]]
        /\ inodes' = Retain(WriteFd(inodes, r.fd, r.pos, w.out), files, reqs')
        /\ UNCHANGED <<dirs, files, served, presence, clientVars, hashVars>>

\* remove_file(path)?, then the mismatch is returned.
PutRemove(s) ==
    LET r == reqs[s]
        path == object_path(r)
    IN  /\ r.op = "put" /\ r.pc = "remove"
        /\ IF path_exists(path)
           THEN /\ files' = Unlink(files, path)
                /\ reqs' = [reqs EXCEPT ![s] = get_response(r, r.err)]
           ELSE /\ files' = files
                /\ reqs' = [reqs EXCEPT ![s] = get_response(r, "InternalError")]
        /\ inodes' = Retain(inodes, files', reqs')
        /\ UNCHANGED <<dirs, served, presence, clientVars, hashVars>>

(***************************************************************************)
(* TestCodec::decode.  res is "Err", "None" (Ok(None)) or "Some" (a frame).*)
(***************************************************************************)
\* decode with the header's NUL left in the buffer (advance(index)).
decode_keeps_separator(codec, buf) ==
    IF codec = None
    THEN IF buf = <<>>
         THEN [codec |-> codec, buf |-> buf, res |-> "Err", frame |-> <<>>]
         ELSE LET index == position(buf, NUL)
                  value == read_header_from_slice(SubSeq(buf, 1, index - 1))
              IN  IF index = 0 \/ value = None
                  THEN [codec |-> codec, buf |-> buf, res |-> "Err", frame |-> <<>>]
                  ELSE [codec |-> value, buf |-> SubSeq(buf, index, Len(buf)),
                        res |-> "Err", frame |-> <<>>]
    ELSE IF buf = <<>>
         THEN [codec |-> codec, buf |-> buf, res |-> "None", frame |-> <<>>]
         ELSE [codec |-> codec, buf |-> <<>>, res |-> "Some", frame |-> buf]

\* decode that throws away what the buffer holds past the header.
decode_drops_remainder(codec, buf) ==
    IF codec = None
    THEN IF buf = <<>>
         THEN [codec |-> codec, buf |-> buf, res |-> "Err", frame |-> <<>>]
         ELSE LET index == position(buf, NUL)
                  value == read_header_from_slice(SubSeq(buf, 1, index - 1))
              IN  IF index = 0 \/ value = None
                  THEN [codec |-> codec, buf |-> buf, res |-> "Err", frame |-> <<>>]
                  ELSE [codec |-> value, buf |-> <<>>, res |-> "Err", frame |-> <<>>]
    ELSE IF buf = <<>>
         THEN [codec |-> codec, buf |-> buf, res |-> "None", frame |-> <<>>]
         ELSE [codec |-> codec, buf |-> <<>>, res |-> "Some", frame |-> buf]

decode(codec, buf) ==
    IF codec = None
    THEN IF buf = <<>>
         THEN [codec |-> codec, buf |-> buf, res |-> "Err", frame |-> <<>>]
         ELSE LET index == position(buf, NUL)
                  value == read_header_from_slice(SubSeq(buf, 1, index - 1))
              IN  IF index = 0 \/ value = None
                  THEN [codec |-> codec, buf |-> buf, res |-> "Err", frame |-> <<>>]
                  ELSE [codec |-> value, buf |-> SubSeq(buf, index + 1, Len(buf)),
                        res |-> "Err", frame |-> <<>>]
    ELSE IF buf = <<>>
         THEN [codec |-> codec, buf |-> buf, res |-> "None", frame |-> <<>>]
         ELSE [codec |-> codec, buf |-> <<>>, res |-> "Some", frame |-> buf]

\* Decoder::decode_eof (the default): Ok(None) with bytes left is an error.
decode_eof(codec, buf) ==
    LET d == decode(codec, buf)
    IN  IF d.res = "None" /\ d.buf # <<>> THEN [d EXCEPT !.res = "Err"] ELSE d

(***************************************************************************)
(* FramedRead::poll_next over the open file: [r, item], the request with   *)
(* the stream's state afterwards and what the stream yields: "Err",        *)
(* "Frame" (r.frame holds it) or "End" (None).                             *)
(***************************************************************************)
\* The pass over a readable buffer; item "Read" asks for more bytes.
FramedDecode(r) ==
    IF r.has_errored
    THEN [r |-> [r EXCEPT !.is_readable = FALSE, !.has_errored = FALSE],
          item |-> "End", frame |-> <<>>]
    ELSE IF ~r.is_readable
    THEN [r |-> r, item |-> "Read", frame |-> <<>>]
    ELSE LET d == IF r.eof THEN decode_eof(r.codec, r.buf) ELSE decode(r.codec, r.buf)
             r1 == [r EXCEPT !.codec = d.codec, !.buf = d.buf]
         IN  CASE d.res = "Err" ->
                    [r |-> [r1 EXCEPT !.has_errored = TRUE], item |-> "Err", frame |-> <<>>]
               [] d.res = "Some" ->
                    [r |-> r1, item |-> "Frame", frame |-> d.frame]
               [] d.res = "None" /\ r.eof ->
                    [r |-> [r1 EXCEPT !.is_readable = FALSE], item |-> "End", frame |-> <<>>]
               [] d.res = "None" /\ ~r.eof ->
                    [r |-> [r1 EXCEPT !.is_readable = FALSE], item |-> "Read", frame |-> <<>>]

\* After the pass a: the read, if it asked for one, and the pass over what
\* was read.
FramedRead(a, content, n) ==
    IF a.item # "Read" THEN a
    ELSE IF ReadFrom(content, a.r.pos, n) = <<>> /\ a.r.eof
    THEN [r |-> a.r, item |-> "End", frame |-> <<>>]
    ELSE CHOOSE res \in
            { FramedDecode(r1) :
                r1 \in { [a.r EXCEPT !.buf = a.r.buf \o ReadFrom(content, a.r.pos, n),
                                     !.pos = a.r.pos + Len(ReadFrom(content, a.r.pos, n)),
                                     !.eof = (ReadFrom(content, a.r.pos, n) = <<>>),
                                     !.is_readable = TRUE] } } : TRUE

\* One next() on the stream; a read it makes returns at most n bytes.
poll_next(r, content, n) ==
    CHOOSE res \in { FramedRead(a, content, n) : a \in {FramedDecode(r)} } : TRUE

(***************************************************************************)
(* get_object                                                              *)
(***************************************************************************)
GetArrives(maxActive, in) ==
    \E id \in ObjectIds(in) :
        Accept(maxActive, [Idle EXCEPT !.op = "get", !.pc = "check", !.object_id = id])

\* Lines 239-247: the hash is parsed and the path looked up.
GetCheck(s) ==
    LET r == reqs[s]
        hash == from_string(r.object_id)
        r1 == [r EXCEPT !.hash = hash]
    IN  /\ r.op = "get" /\ r.pc = "check"
        /\ reqs' = [reqs EXCEPT ![s] =
                      IF hash = None
                      THEN Respond(r1, StatusCode_BAD_REQUEST, "InvalidHash")
                      ELSE IF ~path_exists(get_path(Unwrap(hash)))
                      THEN Respond(r1, StatusCode_NO_CONTENT, "NoContent")
                      ELSE [r1 EXCEPT !.pc = "open"]]
        /\ UNCHANGED <<dirs, files, inodes, served, presence, clientVars, hashVars>>

\* tokio::fs::File::open (line 249).
GetOpen(s) ==
    LET r == reqs[s]
        path == object_path(r)
    IN  /\ r.op = "get" /\ r.pc = "open"
        /\ reqs' = [reqs EXCEPT ![s] =
                      IF path_exists(path)
                      THEN [r EXCEPT !.pc = "header", !.fd = files[path]]
                      ELSE Respond(r, StatusCode_INTERNAL_SERVER_ERROR, "InternalError")]
        /\ UNCHANGED <<dirs, files, inodes, served, presence, clientVars, hashVars>>

\* Lines 254-277: the first next() reads the header, the second clears the
\* stream's error state; the response head carries the header's values.
GetHeader(s, in) ==
    /\ reqs[s].op = "get" /\ reqs[s].pc = "header"
    /\ \E n1 \in ReadSizes(in, inodes[reqs[s].fd]) :
       \E n2 \in ReadSizes(in, inodes[reqs[s].fd]) :
       \E first \in {poll_next(reqs[s], inodes[reqs[s].fd], n1)} :
       \E second \in {poll_next(first.r, inodes[reqs[s].fd], n2)} :
          reqs' = [reqs EXCEPT ![s] =
                     IF first.r.codec = None
                     THEN Respond(first.r, StatusCode_INTERNAL_SERVER_ERROR,
                                  "HeaderUnreadable")
                     ELSE [second.r EXCEPT
                             !.pc = "body", !.status = StatusCode_OK,
                             !.rtype = Some(ObjectType_to_str(Unwrap(first.r.codec)[1])),
                             !.rsize = Some(to_string(Unwrap(first.r.codec)[2]))]]
    /\ inodes' = Retain(inodes, files, reqs')
    /\ UNCHANGED <<dirs, files, served, presence, clientVars, hashVars>>

\* Body::from_stream polls the stream: a frame is sent on, an error aborts
\* the response, None completes it.
GetBody(s, in) ==
    /\ reqs[s].op = "get" /\ reqs[s].pc = "body"
    /\ \E n \in ReadSizes(in, inodes[reqs[s].fd]) :
       \E p \in {poll_next(reqs[s], inodes[reqs[s].fd], n)} :
          reqs' = [reqs EXCEPT ![s] =
                     CASE p.item = "Frame" -> [p.r EXCEPT !.body = reqs[s].body \o p.frame]
                       [] p.item = "End" -> Respond(p.r, StatusCode_OK, "Ok")
                       [] p.item = "Err" -> Respond(p.r, StatusCode_OK, "Aborted")]
    /\ inodes' = Retain(inodes, files, reqs')
    /\ UNCHANGED <<dirs, files, served, presence, clientVars, hashVars>>

(***************************************************************************)
(* Startup: read_cache classifies every stored file by its own header.     *)
(***************************************************************************)
HashesOfKind(fls, ino, kind) ==
    { Unwrap(from_string(p[1] \o p[2])).hash :
        p \in {q \in DOMAIN fls :
                 LET h == read_header_from_file(ino[fls[q]])
                 IN  ~h.panicked /\ h.header # None /\ Unwrap(h.header)[1] = kind} }

read_cache(fls, ino) ==
    [indexes |-> HashesOfKind(fls, ino, "Index"),
     trees |-> HashesOfKind(fls, ino, "Tree"),
     blobs |-> HashesOfKind(fls, ino, "Blob")]

(***************************************************************************)
(* The stores the server can be started on: an empty cache directory, one  *)
(* with the shard directories but no object, and ones that hold an object. *)
(***************************************************************************)
Shard(id) == SubSeq(id, 1, SHARD_LEN)

\* No client runs; no Hash value is looked at.
ClientIdle ==
    /\ source = <<>> /\ now = 0 /\ log = <<>>
    /\ dest = [exists |-> FALSE, is_dir |-> FALSE, entries |-> <<>>,
               restored |-> None, panicked |-> FALSE, message |-> ""]
    /\ cat = [hash |-> None, panicked |-> FALSE, stdout |-> <<>>]

HashIdle == ha = None /\ hb = None

InitStores(in) ==
    { [dirs |-> {}, objects |-> {}],
      [dirs |-> {Shard(TargetId(t)) : t \in in.targets}, objects |-> {}] }
    \cup { [dirs |-> {Shard(TargetId(t)) : t \in in.targets}, objects |-> {o}] :
             o \in in.stored }

InitServer(in) ==
    \E st \in InitStores(in) :
        /\ dirs = st.dirs
        /\ files = [p \in {get_path(TargetHash(t)) : t \in st.objects} |-> 1]
        /\ inodes = [n \in {1 : t \in st.objects} |->
                        TargetContent(CHOOSE t \in st.objects : TRUE)]
        /\ reqs = [s \in Slots |-> Idle]
        /\ served = 0
        /\ presence = read_cache(files, inodes)
        /\ ClientIdle
        /\ HashIdle

ServerStep(s, in) ==
    \/ PutCheck(s, in)
    \/ PutAssert(s)
    \/ PutCreate(s)
    \/ PutChunk(s)
    \/ PutChunkErr(s)
    \/ PutEnd(s)
    \/ PutRemove(s)
    \/ GetCheck(s)
    \/ GetOpen(s)
    \/ GetHeader(s, in)
    \/ GetBody(s, in)

vars == <<dirs, files, inodes, reqs, served, presence, source, now, log, dest, cat,
          ha, hb>>

\* The server: up to MaxTasks requests are handled at once, their steps
\* interleaved in any order.
Next ==
    \/ PutArrives(MaxTasks, ConcInputs)
    \/ GetArrives(MaxTasks, ConcInputs)
    \/ \E s \in Slots : ServerStep(s, ConcInputs)

Spec == InitServer(ConcInputs) /\ [][Next]_vars

\* The server given one request at a time.
NextSeq ==
    \/ PutArrives(1, SeqInputs)
    \/ GetArrives(1, SeqInputs)
    \/ \E s \in Slots : ServerStep(s, SeqInputs)

SpecSeq == InitServer(SeqInputs) /\ [][NextSeq]_vars

\* Downloads, one at a time, with reads of any size.
NextChunks ==
    \/ GetArrives(1, ChunkInputs)
    \/ \E s \in Slots :
          \/ GetCheck(s)
          \/ GetOpen(s)
          \/ GetHeader(s, ChunkInputs)
          \/ GetBody(s, ChunkInputs)

SpecChunks == InitServer(ChunkInputs) /\ [][NextChunks]_vars

(***************************************************************************)
(* common: Mode                                                            *)
(***************************************************************************)
Mode == {"Tree", "Normal", "Executable", "SymbolicLink"}

Mode_to_string(m) ==
    CASE m = "Normal" -> <<49, 48, 48, 54, 52, 52>>
      [] m = "Tree" -> <<48, 52, 48, 48, 48, 48>>
      [] m = "Executable" -> <<49, 48, 48, 55, 53, 53>>
      [] m = "SymbolicLink" -> <<49, 50, 48, 48, 48, 48>>

Mode_from_str(value) ==
    IF value = <<48, 52, 48, 48, 48, 48>> THEN Some("Tree")
    ELSE IF value = <<49, 48, 48, 54, 52, 52>> THEN Some("Normal")
    ELSE IF value = <<49, 48, 48, 55, 53, 53>> THEN Some("Executable")
    ELSE IF value = <<49, 50, 48, 48, 48, 48>> THEN Some("SymbolicLink")
    ELSE None

(***************************************************************************)
(* The client's view of a directory.  A node is a regular file (name,      *)
(* content) or a directory (name, entries in read_dir order); names are    *)
(* byte strings, as the file system keeps them.                            *)
(***************************************************************************)
FileNode(name, content) ==
    [kind |-> "file", name |-> name, content |-> content, entries |-> <<>>]

DirNode(name, entries) ==
    [kind |-> "dir", name |-> name, content |-> <<>>, entries |-> entries]

RECURSIVE Flatten(_)
Flatten(seqs) == IF seqs = <<>> THEN <<>> ELSE Head(seqs) \o Flatten(Tail(seqs))

(***************************************************************************)
(* client: Blob, Tree, Index as commit builds them.  A Hashed<T> is the    *)
(* record [kind, inner, hash].                                             *)
(***************************************************************************)
\* Blob::from_path: file stands for the path the blob reads, by the bytes
\* found there.
Blob_from_path(node) ==
    [mode |-> "Normal", path |-> to_string_lossy(node.name),
     size |-> Len(node.content), file |-> node.content]

Blob_get_prefix(blob) == BLOB_KEY \o <<SPACE>> \o to_string(blob.size) \o <<NUL>>

Blob_get_hash(blob) == Hash_from_hasher(Blob_get_prefix(blob) \o blob.file)

\* A tree entry that leaves the child's hash out.
get_bytes_without_hash(object, hash) ==
    Mode_to_string(object.mode) \o <<SPACE>> \o object.path \o <<NUL>>

\* get_bytes_from_thing: "<mode> <name>\0" and the 64 raw bytes.
get_bytes_from_thing(object, hash) ==
    Mode_to_string(object.mode) \o <<SPACE>> \o object.path \o <<NUL>> \o hash.hash

Tree_get_body(tree) ==
    Flatten([i \in 1..Len(tree.contents) |->
                get_bytes_from_thing(tree.contents[i].inner, tree.contents[i].hash)])

Tree_get_prefix(tree) ==
    TREE_KEY \o <<SPACE>> \o to_string(Len(Tree_get_body(tree))) \o <<NUL>>

Tree_get_hash(tree) == Hash_from_hasher(Tree_get_prefix(tree) \o Tree_get_body(tree))

\* Hashed::from_object for the two kinds of tree entry.
HashedBlob(blob) == [kind |-> "Blob", inner |-> blob, hash |-> Blob_get_hash(blob)]
HashedTree(tree) == [kind |-> "Tree", inner |-> tree, hash |-> Tree_get_hash(tree)]

\* Tree::from_dir: one entry per child, in read_dir order.
RECURSIVE Tree_from_dir(_)
Tree_from_dir(node) ==
    [mode |-> "Tree", path |-> to_string_lossy(node.name),
     contents |-> [i \in 1..Len(node.entries) |->
                      IF node.entries[i].kind = "dir"
                      THEN CHOOSE h \in {HashedTree(t) :
                                           t \in {Tree_from_dir(node.entries[i])}} : TRUE
                      ELSE HashedBlob(Blob_from_path(node.entries[i]))]]

\* DateTime<Utc>::to_rfc3339 of the clock's t-th second:
\* "1970-01-01T00:00:SS+00:00".
to_rfc3339(t) ==
    <<49, 57, 55, 48, 45, 48, 49, 45, 48, 49, 84, 48, 48, 58, 48, 48, 58>>
      \o <<DIGIT0 + (t \div 10), DIGIT0 + (t % 10)>>
      \o <<43, 48, 48, 58, 48, 48>>

\* An index body that leaves the clock's reading out.
Index_get_body_without_clock(index) ==
    <<116, 105, 109, 101, 115, 116, 97, 109, 112, 58, 32>>
      \o to_rfc3339(0)
      \o <<10, 116, 114, 101, 101, 58, 32>>
      \o index.tree.hash.hash_string

\* Index::get_body: "timestamp: {}\ntree: {}".
Index_get_body(index) ==
    <<116, 105, 109, 101, 115, 116, 97, 109, 112, 58, 32>>
      \o to_rfc3339(index.timestamp)
      \o <<10, 116, 114, 101, 101, 58, 32>>
      \o index.tree.hash.hash_string

Index_get_prefix(index) ==
    INDEX_KEY \o <<SPACE>> \o to_string(Len(Index_get_body(index))) \o <<NUL>>

Index_get_hash(index) == Hash_from_hasher(Index_get_prefix(index) \o Index_get_body(index))

\* Index::from_path, at clock reading t.
Index_from_path(root, t) ==
    [timestamp |-> t,
     tree |-> CHOOSE h \in {HashedTree(tr) : tr \in {Tree_from_dir(root)}} : TRUE]

(***************************************************************************)
(* client: writing to the cache.  A store is [dirs, files, inodes], as the *)
(* variables of those names.                                               *)
(***************************************************************************)
\* Object::write_to for a blob, a tree, an index: the bytes of the file.
Blob_write_to(blob) == Blob_get_prefix(blob) \o blob.file
Tree_write_to(tree) == Tree_get_prefix(tree) \o Tree_get_body(tree)
Index_write_to(index) == Index_get_prefix(index) \o Index_get_body(index)

\* A writer that does not look whether the file is there.
write_always(st, hash, bytes) ==
    LET dir_name == SubSeq(hash.hash_string, 1, SHARD_LEN)
        file_name == SubSeq(hash.hash_string, SHARD_LEN + 1, Len(hash.hash_string))
        path == <<dir_name, file_name>>
        n == Cardinality(DOMAIN st.inodes) + 1
    IN  [dirs |-> st.dirs \cup {dir_name},
         files |-> [q \in (DOMAIN st.files) \cup {path} |->
                       IF q = path THEN n ELSE st.files[q]],
         inodes |-> [i \in (DOMAIN st.inodes) \cup {n} |->
                       IF i = n THEN bytes ELSE st.inodes[i]]]

\* Hashed::write_if_not_exists: the shard directory is made (an error of
\* create_dir is dropped), the file is written unless its path exists.
write_if_not_exists(st, hash, bytes) ==
    LET dir_name == SubSeq(hash.hash_string, 1, SHARD_LEN)
        file_name == SubSeq(hash.hash_string, SHARD_LEN + 1, Len(hash.hash_string))
        path == <<dir_name, file_name>>
        n == Cardinality(DOMAIN st.inodes) + 1
    IN  IF path \in DOMAIN st.files
        THEN [st EXCEPT !.dirs = st.dirs \cup {dir_name}]
        ELSE [dirs |-> st.dirs \cup {dir_name},
              files |-> [q \in (DOMAIN st.files) \cup {path} |->
                            IF q = path THEN n ELSE st.files[q]],
              inodes |-> [i \in (DOMAIN st.inodes) \cup {n} |->
                            IF i = n THEN bytes ELSE st.inodes[i]]]

\* A writer that stores the tree and its blobs and leaves its sub-trees out.
write_tree_without_subtrees(tree) ==
    << <<tree.hash, Tree_write_to(tree.inner)>> >>
      \o Flatten([i \in 1..Len(tree.inner.contents) |->
                    IF tree.inner.contents[i].kind = "Tree"
                    THEN <<>>
                    ELSE << <<tree.inner.contents[i].hash,
                              Blob_write_to(tree.inner.contents[i].inner)>> >>])

\* write_tree_to_folder: the tree, then its elements in order, sub-trees
\* in depth: the writes it asks for, as <<hash, bytes>> pairs.
RECURSIVE write_tree_to_folder(_)
write_tree_to_folder(tree) ==
    << <<tree.hash, Tree_write_to(tree.inner)>> >>
      \o Flatten([i \in 1..Len(tree.inner.contents) |->
                    IF tree.inner.contents[i].kind = "Tree"
                    THEN write_tree_to_folder(tree.inner.contents[i])
                    ELSE << <<tree.inner.contents[i].hash,
                              Blob_write_to(tree.inner.contents[i].inner)>> >>])

\* write_index_to_folder: the index first.
write_index_to_folder(index, hash) ==
    << <<hash, Index_write_to(index)>> >> \o write_tree_to_folder(index.tree)

RECURSIVE WriteEach(_, _)
WriteEach(st, writes) ==
    IF writes = <<>> THEN st
    ELSE WriteEach(write_if_not_exists(st, Head(writes)[1], Head(writes)[2]),
                   Tail(writes))

\* commit_directory: the index of the source at the clock's reading is
\* built and written; its hash is printed.  log keeps, per commit, the
\* printed hash, the root tree's hash, the timestamp, and the paths of the
\* files the commit created.
commit_directory ==
    /\ Len(log) < MaxCommits
    /\ \E index \in {Index_from_path(DirNode(<<114>>, source), now)} :
       \E hash \in {Index_get_hash(index)} :
       \E st \in {WriteEach([dirs |-> dirs, files |-> files, inodes |-> inodes],
                            write_index_to_folder(index, hash))} :
          /\ dirs' = st.dirs
          /\ files' = st.files
          /\ inodes' = st.inodes
          /\ log' = Append(log, [index |-> hash.hash_string,
                                 tree |-> index.tree.hash.hash_string,
                                 timestamp |-> now,
                                 created |-> (DOMAIN st.files) \ (DOMAIN files)])
    /\ UNCHANGED <<source, now, dest, cat, serverVars, hashVars>>

(***************************************************************************)
(* client: reading the cache back.  Every unwrap, expect and assert of the *)
(* code is a way to panic: a result is a record whose field panicked says  *)
(* whether the call returned.                                              *)
(***************************************************************************)
Panic == [panicked |-> TRUE]

\* From<&str> for Hash: asserts and unwraps where from_string returns None.
Hash_from_str(value) ==
    CHOOSE res \in
      { IF h = None THEN Panic ELSE [panicked |-> FALSE, hash |-> Unwrap(h)] :
          h \in {from_string(value)} } : TRUE

\* Hash::from_path: None unless the directory name has 2 characters and
\* the file name 126.
from_path(file) ==
    IF Len(file[1]) # SHARD_LEN \/ Len(file[2]) # HASH_HEX_LEN - SHARD_LEN
    THEN [panicked |-> FALSE, hash |-> None]
    ELSE CHOOSE res \in
           { IF h.panicked THEN Panic ELSE [panicked |-> FALSE, hash |-> Some(h.hash)] :
               h \in {Hash_from_str(file[1] \o file[2])} } : TRUE

\* What a reader finds after read_until(0) took its part.
AfterHeader(content) ==
    SubSeq(content, Len(read_until(content, NUL)) + 1, Len(content))

\* CacheObject::from_file.
CacheObject_from_file(st, file_path) ==
    IF file_path \notin DOMAIN st.files THEN Panic
    ELSE LET raw == read_until(st.inodes[st.files[file_path]], NUL)
             data == IF raw # <<>> /\ raw[Len(raw)] = NUL
                     THEN SubSeq(raw, 1, Len(raw) - 1) ELSE raw
             parts == split_once(data, SPACE)
         IN  IF ~from_utf8_ok(data) \/ parts = None THEN Panic
             ELSE IF ObjectType_from_str(Unwrap(parts)[1]) = None THEN Panic
             ELSE CHOOSE res \in
                    { IF hash.panicked THEN Panic
                      ELSE IF hash.hash = None THEN Panic
                      ELSE IF parse_u64(Unwrap(parts)[2]) = None THEN Panic
                      ELSE [panicked |-> FALSE,
                            object_type |-> Unwrap(ObjectType_from_str(Unwrap(parts)[1])),
                            hash |-> Unwrap(hash.hash),
                            size |-> Unwrap(parse_u64(Unwrap(parts)[2])),
                            file |-> file_path] :
                        hash \in {from_path(file_path)} } : TRUE

\* CacheObject::to_blob.
to_blob(st, co, mode, path) ==
    LET h == read_header_from_file(st.inodes[st.files[co.file]])
    IN  IF co.object_type # "Blob" THEN Panic
        ELSE IF h.panicked \/ h.header = None THEN Panic
        ELSE [panicked |-> FALSE,
              item |-> [kind |-> "Blob",
                        inner |-> [mode |-> mode, path |-> path, file |-> co.file,
                                   size |-> Unwrap(h.header)[2]],
                        hash |-> co.hash]]

\* CacheObject::to_tree, and the loop over the entries of its body.
RECURSIVE to_tree(_, _, _, _)
RECURSIVE ReadEntries(_, _)
ReadEntries(st, rest) ==
    IF rest = <<>> THEN [panicked |-> FALSE, contents |-> <<>>]
    ELSE LET buffer == read_until(rest, NUL)
             string == SubSeq(buffer, 1, Len(buffer) - 1)
             parts == split_once(string, SPACE)
             after == SubSeq(rest, Len(buffer) + 1, Len(rest))
         IN  IF ~from_utf8_ok(string) \/ parts = None THEN Panic
             ELSE IF Mode_from_str(Unwrap(parts)[1]) = None THEN Panic
             ELSE IF Len(after) < HASH_LEN THEN Panic
             ELSE CHOOSE res \in
                    { IF co.panicked THEN Panic
                      ELSE IF co.object_type = "Index" THEN Panic
                      ELSE CHOOSE r \in
                             { IF item.panicked THEN Panic
                               ELSE CHOOSE r2 \in
                                      { IF more.panicked THEN Panic
                                        ELSE [panicked |-> FALSE,
                                              contents |-> <<item.item>> \o more.contents] :
                                          more \in {ReadEntries(st,
                                                      SubSeq(after, HASH_LEN + 1, Len(after)))} } : TRUE :
                                 item \in { IF co.object_type = "Blob"
                                            THEN to_blob(st, co, Unwrap(Mode_from_str(Unwrap(parts)[1])),
                                                         Unwrap(parts)[2])
                                            ELSE to_tree(st, co, Unwrap(Mode_from_str(Unwrap(parts)[1])),
                                                         Unwrap(parts)[2]) } } : TRUE :
                        co \in { CacheObject_from_file(st,
                                   get_path(Hash_from_bytes(SubSeq(after, 1, HASH_LEN)))) } } : TRUE

to_tree(st, co, mode, path) ==
    LET content == st.inodes[st.files[co.file]]
        h == read_header_from_file(content)
    IN  IF co.object_type # "Tree" THEN Panic
        ELSE IF h.panicked \/ h.header = None THEN Panic
        ELSE CHOOSE res \in
               { IF entries.panicked THEN Panic
                 ELSE [panicked |-> FALSE,
                       item |-> [kind |-> "Tree",
                                 inner |-> [mode |-> mode, path |-> path,
                                            contents |-> entries.contents],
                                 hash |-> co.hash]] :
                   entries \in {ReadEntries(st, AfterHeader(content))} } : TRUE

\* str::split(c): the pieces between the occurrences of c.
RECURSIVE split(_, _)
split(s, c) ==
    IF position(s, c) = 0 THEN <<s>>
    ELSE <<SubSeq(s, 1, position(s, c) - 1)>>
           \o split(SubSeq(s, position(s, c) + 1, Len(s)), c)

\* str::trim, for the white space of the model: spaces and line feeds.
RECURSIVE trim(_)
trim(s) ==
    IF s = <<>> THEN s
    ELSE IF s[1] \in {SPACE, 10} THEN trim(Tail(s))
    ELSE IF s[Len(s)] \in {SPACE, 10} THEN trim(SubSeq(s, 1, Len(s) - 1))
    ELSE s

\* DateTime::parse_from_rfc3339, on the seconds of the clock's first minute.
parse_from_rfc3339(s) ==
    IF \E t \in 0..59 : to_rfc3339(t) = s
    THEN Some(CHOOSE t \in 0..59 : to_rfc3339(t) = s)
    ELSE None

\* The HashMap to_index fills: the value of the last line with the key.
Metadata(lines, key) ==
    LET hits == {i \in 1..Len(lines) : Unwrap(split_once(lines[i], 58))[1] = key}
    IN  IF hits = {} THEN None
        ELSE Some(trim(Unwrap(split_once(lines[CHOOSE i \in hits : \A j \in hits : j <= i],
                                         58))[2]))

\* CacheObject::to_index.
to_index(st, co) ==
    LET string_data == AfterHeader(st.inodes[st.files[co.file]])
        lines == split(string_data, 10)
        timestamp == Metadata(lines, <<116, 105, 109, 101, 115, 116, 97, 109, 112>>)
        tree == Metadata(lines, <<116, 114, 101, 101>>)
    IN  IF co.object_type # "Index" THEN Panic
        ELSE IF ~from_utf8_ok(string_data) THEN Panic
        ELSE IF \E i \in 1..Len(lines) : split_once(lines[i], 58) = None THEN Panic
        ELSE IF timestamp = None THEN Panic
        ELSE IF parse_from_rfc3339(Unwrap(timestamp)) = None THEN Panic
        ELSE IF tree = None THEN Panic
        ELSE CHOOSE res \in
               { IF tree_hash.panicked THEN Panic
                 ELSE CHOOSE r1 \in
                   { IF tree_object.panicked THEN Panic
                     ELSE IF tree_object.object_type # "Tree" THEN Panic
                     ELSE CHOOSE r \in
                        { IF t.panicked THEN Panic
                          ELSE [panicked |-> FALSE,
                                index |-> [timestamp |-> Unwrap(parse_from_rfc3339(Unwrap(timestamp))),
                                           tree |-> t.item]] :
                            t \in {to_tree(st, tree_object, "Tree", <<>>)} } : TRUE :
                       tree_object \in { CacheObject_from_file(st,
                                           get_path(tree_hash.hash)) } } : TRUE :
                   tree_hash \in {Hash_from_str(Unwrap(tree))} } : TRUE

(***************************************************************************)
(* client: restore.                                                        *)
(***************************************************************************)
HasEntry(entries, name) == \E i \in 1..Len(entries) : entries[i].name = name

\* write_tree: the items in order, into the directory whose entries so far
\* are given.  create_dir fails on a name that is taken, File::create on
\* the name of a directory; File::create on the name of a file empties it.
RECURSIVE write_tree(_, _, _)
write_tree(st, contents, entries) ==
    IF contents = <<>> THEN [panicked |-> FALSE, entries |-> entries]
    ELSE LET item == Head(contents)
             name == item.inner.path
         IN  IF item.kind = "Tree"
             THEN IF HasEntry(entries, name)
                  THEN [panicked |-> TRUE, entries |-> entries]
                  ELSE CHOOSE res \in
                         { IF sub.panicked
                           THEN [panicked |-> TRUE,
                                 entries |-> Append(entries, DirNode(name, sub.entries))]
                           ELSE write_tree(st, Tail(contents),
                                           Append(entries, DirNode(name, sub.entries))) :
                             sub \in {write_tree(st, item.inner.contents, <<>>)} } : TRUE
             ELSE IF \E i \in 1..Len(entries) :
                        entries[i].name = name /\ entries[i].kind = "dir"
             THEN [panicked |-> TRUE, entries |-> entries]
             ELSE LET cache_file == st.inodes[st.files[item.inner.file]]
                      created == IF HasEntry(entries, name)
                                 THEN [i \in 1..Len(entries) |->
                                          IF entries[i].name = name
                                          THEN FileNode(name, <<>>) ELSE entries[i]]
                                 ELSE Append(entries, FileNode(name, <<>>))
                  IN  IF read_header_from_file(cache_file).panicked
                      THEN [panicked |-> TRUE, entries |-> created]
                      ELSE write_tree(st, Tail(contents),
                             [i \in 1..Len(created) |->
                                 IF created[i].name = name
                                 THEN FileNode(name, AfterHeader(cache_file))
                                 ELSE created[i]])

\* A directory listing that never shows an entry.
read_dir_shows_none(path) == FALSE

\* read_dir(path).unwrap().any(|_| true): the directory holds an entry.
read_dir_any(path) == path.entries # <<>>

\* restore_directory, called with the text index: the destination is made
\* when it is missing, it must be a directory and be empty, and then the
\* text is parsed and the index is read and written out.
restore_directory(index) ==
    /\ dest.restored = None
    /\ \E st \in {[dirs |-> dirs, files |-> files, inodes |-> inodes]} :
       \E index_hash \in {Hash_from_str(index)} :
       \E path \in {IF dest.exists THEN dest
                    ELSE [dest EXCEPT !.exists = TRUE, !.is_dir = TRUE]} :
       \E res \in
            { IF ~path.is_dir
              THEN [panicked |-> TRUE, entries |-> path.entries,
                    message |-> "Path provided must be a valid directory"]
              ELSE IF read_dir_any(path)
              THEN [panicked |-> TRUE, entries |-> path.entries,
                    message |-> "Path provided must be an empty directory"]
              ELSE IF index_hash.panicked
              THEN [panicked |-> TRUE, entries |-> path.entries,
                    message |-> "assertion failed"]
              ELSE CHOOSE r1 \in
                     { IF index_cache.panicked
                       THEN [panicked |-> TRUE, entries |-> path.entries,
                             message |-> "unwrap"]
                       ELSE CHOOSE r2 \in
                              { IF hashed.panicked
                                THEN [panicked |-> TRUE, entries |-> path.entries,
                                      message |-> "unwrap"]
                                ELSE CHOOSE r3 \in
                                       { [panicked |-> w.panicked, entries |-> w.entries,
                                          message |-> IF w.panicked THEN "expect" ELSE ""] :
                                           w \in {write_tree(st, hashed.index.tree.inner.contents,
                                                             path.entries)} } : TRUE :
                                  hashed \in {to_index(st, index_cache)} } : TRUE :
                         index_cache \in { CacheObject_from_file(st,
                                             get_path(index_hash.hash)) } } : TRUE } :
          dest' = [path EXCEPT !.entries = res.entries, !.restored = Some(index),
                               !.panicked = res.panicked, !.message = res.message]
    /\ UNCHANGED <<source, now, log, cat, fsVars, serverVars, hashVars>>

\* cat_object, called with the text hash: the text is parsed, the object's
\* file is opened, its header is read, and what follows goes to stdout.
cat_object(hash) ==
    /\ cat.hash = None
    /\ \E h \in {Hash_from_str(hash)} :
          cat' = IF h.panicked
                 THEN [hash |-> Some(hash), panicked |-> TRUE, stdout |-> <<>>]
                 ELSE IF ~path_exists(get_path(h.hash))
                 THEN [hash |-> Some(hash), panicked |-> TRUE, stdout |-> <<>>]
                 ELSE LET content == inodes[files[get_path(h.hash)]]
                          header == read_header_from_file(content)
                      IN  IF header.panicked \/ header.header = None
                          THEN [hash |-> Some(hash), panicked |-> TRUE, stdout |-> <<>>]
                          ELSE [hash |-> Some(hash), panicked |-> FALSE,
                                stdout |-> AfterHeader(content) \o <<10>>]
    /\ UNCHANGED <<source, now, log, dest, fsVars, serverVars, hashVars>>

\* Time passes.
Tick ==
    /\ now < MaxClock
    /\ now' = now + 1
    /\ UNCHANGED <<source, log, dest, cat, fsVars, serverVars, hashVars>>

(***************************************************************************)
(* The directories the client is run on: up to MaxEntries entries at the   *)
(* root, each a file or a directory of at most one file.  Names are "a",   *)
(* "b" and the single byte 0xFF; files are empty or hold "h".              *)
(***************************************************************************)
Names == {<<97>>, <<98>>, <<255>>}
Contents == {<<>>, <<104>>}
Files == {FileNode(n, c) : n \in Names, c \in Contents}
LeafDirs == {DirNode(n, es) : n \in Names, es \in {<<>>} \cup {<<f>> : f \in Files}}
Nodes == Files \cup LeafDirs

DistinctNames(entries) ==
    \A i \in 1..Len(entries), j \in 1..Len(entries) :
        i # j => entries[i].name # entries[j].name

Sources ==
    {es \in UNION {[1..k -> Nodes] : k \in 0..MaxEntries} : DistinctNames(es)}

\* No server runs.
ServerIdle ==
    /\ reqs = [s \in Slots |-> Idle]
    /\ served = 0
    /\ presence = [indexes |-> {}, trees |-> {}, blobs |-> {}]

\* The cache is empty; the destination is missing, or empty.
InitClient ==
    /\ dirs = {} /\ files = <<>> /\ inodes = <<>>
    /\ ServerIdle
    /\ HashIdle
    /\ source \in Sources
    /\ now = 0
    /\ log = <<>>
    /\ \E e \in BOOLEAN :
          dest = [exists |-> e, is_dir |-> e, entries |-> <<>>,
                  restored |-> None, panicked |-> FALSE, message |-> ""]
    /\ cat = [hash |-> None, panicked |-> FALSE, stdout |-> <<>>]

\* Commits, and the restore of an index that a commit printed.
NextClient ==
    \/ commit_directory
    \/ \E i \in 1..Len(log) : restore_directory(log[i].index)
    \/ Tick

SpecClient == InitClient /\ [][NextClient]_vars

(***************************************************************************)
(* The client run with any argument, on any destination: the hash texts    *)
(* are those a commit printed and texts that are no hash (127 characters,  *)
(* 129 characters, 128 with a 'g'); the destination is missing, an empty   *)
(* directory, a directory that holds a file, or a file.  The sources have  *)
(* up to MaxArgEntries entries.                                            *)
(***************************************************************************)
HashArgs == {log[i].index : i \in 1..Len(log)} \cup {ShortId, LongId, NonHexId}

Destinations ==
    { [exists |-> FALSE, is_dir |-> FALSE, entries |-> <<>>],
      [exists |-> TRUE, is_dir |-> TRUE, entries |-> <<>>],
      [exists |-> TRUE, is_dir |-> TRUE, entries |-> <<FileNode(<<97>>, <<104>>)>>],
      [exists |-> TRUE, is_dir |-> FALSE, entries |-> <<>>] }

InitArgs ==
    /\ dirs = {} /\ files = <<>> /\ inodes = <<>>
    /\ ServerIdle
    /\ HashIdle
    /\ source \in {es \in Sources : Len(es) <= MaxArgEntries}
    /\ now = 0
    /\ log = <<>>
    /\ \E d \in Destinations :
          dest = [exists |-> d.exists, is_dir |-> d.is_dir, entries |-> d.entries,
                  restored |-> None, panicked |-> FALSE, message |-> ""]
    /\ cat = [hash |-> None, panicked |-> FALSE, stdout |-> <<>>]

NextArgs ==
    \/ commit_directory
    \/ \E index \in HashArgs : restore_directory(index)
    \/ \E hash \in HashArgs : cat_object(hash)
    \/ Tick

SpecArgs == InitArgs /\ [][NextArgs]_vars

(***************************************************************************)
(* The cat command on a cache that holds one file of any content, well-    *)
(* formed or not, under the name of a hash.                                *)
(***************************************************************************)
\* The contents: a keyword or not, a space or not, a number or not, and
\* then nothing, a NUL, or a NUL and a byte.
HeaderFiles ==
    { head \o sep \o size \o end :
        head \in {<<>>, BLOB_KEY, TREE_KEY, INDEX_KEY, <<120>>},
        sep \in {<<>>, <<SPACE>>},
        size \in {<<>>, to_string(1), to_string(12), <<120>>, <<PLUS>> \o to_string(1)},
        end \in {<<>>, <<NUL>>, <<NUL, LOWER_A>>} }

InitHeader ==
    /\ \E content \in HeaderFiles :
          /\ dirs = {Shard(TargetId(<<"Tree", <<>>>>))}
          /\ files = [p \in {get_path(TargetHash(<<"Tree", <<>>>>))} |-> 1]
          /\ inodes = <<content>>
    /\ ServerIdle
    /\ HashIdle
    /\ ClientIdle

NextHeader == \E hash \in {TargetId(<<"Tree", <<>>>>)} : cat_object(hash)

SpecHeader == InitHeader /\ [][NextHeader]_vars

(***************************************************************************)
(* Hash values by every way of building them.  The texts are spellings of  *)
(* digests: as hex::encode writes them, in upper case, and with the first  *)
(* letter alone in upper case; and texts that are no hash.                 *)
(***************************************************************************)
HashData == {TargetContent(t) : t \in SeqInputs.targets} \cup {<<>>}

IsLowerHex(c) == c >= LOWER_A /\ c <= LOWER_A + 5

to_ascii_uppercase(text) ==
    [i \in 1..Len(text) |->
        IF IsLowerHex(text[i]) THEN text[i] - LOWER_A + UPPER_A ELSE text[i]]

\* Only the first letter of the text in upper case.
FirstLetterUpper(text) ==
    [i \in 1..Len(text) |->
        IF IsLowerHex(text[i]) /\ \A j \in 1..(i - 1) : ~IsLowerHex(text[j])
        THEN text[i] - LOWER_A + UPPER_A ELSE text[i]]

HashTexts ==
    UNION { { hex_encode(finalize_fixed(d)),
              to_ascii_uppercase(hex_encode(finalize_fixed(d))),
              FirstLetterUpper(hex_encode(finalize_fixed(d))) } : d \in HashData }
      \cup {ShortId, NonHexId}

\* Hash::from_string on a text.
HashFromString ==
    \E text \in HashTexts :
        \/ ha' = from_string(text) /\ UNCHANGED hb
        \/ hb' = from_string(text) /\ UNCHANGED ha

\* From<[u8; 64]> on raw bytes.
HashFromBytes ==
    \E d \in HashData :
        \/ ha' = Some(Hash_from_bytes(finalize_fixed(d))) /\ UNCHANGED hb
        \/ hb' = Some(Hash_from_bytes(finalize_fixed(d))) /\ UNCHANGED ha

\* From<Sha512> on a hasher that was fed d.
HashFromHasher ==
    \E d \in HashData :
        \/ ha' = Some(Hash_from_hasher(d)) /\ UNCHANGED hb
        \/ hb' = Some(Hash_from_hasher(d)) /\ UNCHANGED ha

InitHash ==
    /\ dirs = {} /\ files = <<>> /\ inodes = <<>>
    /\ ServerIdle
    /\ ClientIdle
    /\ HashIdle

NextHash ==
    \/ (HashFromString /\ UNCHANGED <<fsVars, serverVars, clientVars>>)
    \/ (HashFromBytes /\ UNCHANGED <<fsVars, serverVars, clientVars>>)
    \/ (HashFromHasher /\ UNCHANGED <<fsVars, serverVars, clientVars>>)

SpecHash == InitHash /\ [][NextHash]_vars

(***************************************************************************)
(* The server started on a cache directory that holds several files.  The  *)
(* files have names of 128 hex digits, in lower or in upper case, and      *)
(* begin with a header; read_cache does not compare a file's digest with   *)
(* its name.  Downloads follow.                                            *)
(***************************************************************************)
\* The files, <<name, content>>.
ScanFiles ==
    { <<TargetId(t), TargetContent(t)>> : t \in ChunkInputs.stored }
      \cup { <<to_ascii_uppercase(TargetId(<<"Index", <<NUL>>>>)), TargetContent(t)>> :
                t \in { <<"Index", <<NUL>>>>, <<"Tree", <<>>>> } }
      \cup { <<TargetId(<<"Tree", <<>>>>), TargetContent(<<"Tree", <<>>>>)>> }

InitScan ==
    /\ \E store \in {st \in SUBSET ScanFiles :
                        \A f \in st, g \in st : f[1] = g[1] => f = g} :
       \E order \in {CHOOSE o \in [1..Cardinality(store) -> store] : Range(o) = store} :
          /\ dirs = {Shard(f[1]) : f \in ScanFiles}
          /\ files = [path \in {<<Shard(f[1]), SubSeq(f[1], SHARD_LEN + 1, Len(f[1]))>> :
                                   f \in store} |->
                         CHOOSE n \in 1..Cardinality(store) :
                            order[n][1] = path[1] \o path[2]]
          /\ inodes = [n \in 1..Cardinality(store) |-> order[n][2]]
    /\ reqs = [s \in Slots |-> Idle]
    /\ served = 0
    /\ presence = read_cache(files, inodes)
    /\ ClientIdle
    /\ HashIdle

SpecScan == InitScan /\ [][NextChunks]_vars

(***************************************************************************)
(* Properties of the upload and download handlers.                         *)
(***************************************************************************)
\* What a PUT is to store: the prefix of its declared kind and size, then
\* the body the client transmits.
Stored(r) == get_object_prefix(r.object_type, r.object_size) \o r.payload

\* r is an answered PUT that named a hash not stored at its lookup, carried
\* valid headers, and whose body arrived to its end.
PutAnswered(r) ==
    /\ r.op = "put" /\ r.pc = "done"
    /\ r.object_type \in ObjectType
    /\ r.err # "StreamError"

DigestMatches(r) == Hash_eq(Unwrap(r.hash), Hash_from_hasher(Stored(r)))

\* r is the request that arrived last.
Latest(r) == r.seq = served

FileAt(path) == inodes[files[path]]

\* C1: a PUT to a hash that is not stored, whose body has exactly
\* Object-Size bytes but whose digest of prefix || body differs from the
\* hash in the path, is answered HashDoesntMatch (400), and when it has
\* ended there is no file at the hash's path.
C1_HashMismatchRejected ==
    \A s \in Slots :
        LET r == reqs[s]
        IN  (PutAnswered(r) /\ Latest(r)
               /\ Len(r.payload) = r.object_size /\ ~DigestMatches(r))
            => /\ r.outcome = "HashDoesntMatch"
               /\ r.status = StatusCode_BAD_REQUEST
               /\ ~path_exists(object_path(r))

\* The same where the shard directory of the hash exists.
HashMismatchRejectedInShard ==
    \A s \in Slots :
        LET r == reqs[s]
        IN  (PutAnswered(r) /\ Latest(r) /\ object_path(r)[1] \in dirs
               /\ Len(r.payload) = r.object_size /\ ~DigestMatches(r))
            => /\ r.outcome = "HashDoesntMatch"
               /\ r.status = StatusCode_BAD_REQUEST
               /\ ~path_exists(object_path(r))

\* C2: a PUT to a hash that is not stored, whose body has fewer or more
\* bytes than the declared Object-Size, is answered LengthDoesntMatch
\* (400), and when it has ended there is no file at the hash's path.
C2_LengthMismatchRejected ==
    \A s \in Slots :
        LET r == reqs[s]
        IN  (PutAnswered(r) /\ Latest(r) /\ Len(r.payload) # r.object_size)
            => /\ r.outcome = "LengthDoesntMatch"
               /\ r.status = StatusCode_BAD_REQUEST
               /\ ~path_exists(object_path(r))

\* The same where the shard directory of the hash exists.
LengthMismatchRejectedInShard ==
    \A s \in Slots :
        LET r == reqs[s]
        IN  (PutAnswered(r) /\ Latest(r) /\ object_path(r)[1] \in dirs
               /\ Len(r.payload) # r.object_size)
            => /\ r.outcome = "LengthDoesntMatch"
               /\ r.status = StatusCode_BAD_REQUEST
               /\ ~path_exists(object_path(r))

\* C3: a PUT to a hash that is not stored, with valid headers, a body of
\* exactly Object-Size bytes and the digest of prefix || body equal to the
\* hash, is answered Created (201) and the store then holds prefix || body
\* at the hash's path, whichever shard directories the store has.
C3_ValidPutCreated ==
    \A s \in Slots :
        LET r == reqs[s]
        IN  (PutAnswered(r) /\ Latest(r)
               /\ Len(r.payload) = r.object_size /\ DigestMatches(r))
            => /\ r.outcome = "Created"
               /\ r.status = StatusCode_CREATED
               /\ path_exists(object_path(r))
               /\ FileAt(object_path(r)) = Stored(r)

\* The same where the shard directory of the hash exists.
ValidPutCreatedInShard ==
    \A s \in Slots :
        LET r == reqs[s]
        IN  (PutAnswered(r) /\ Latest(r) /\ object_path(r)[1] \in dirs
               /\ Len(r.payload) = r.object_size /\ DigestMatches(r))
            => /\ r.outcome = "Created"
               /\ r.status = StatusCode_CREATED
               /\ path_exists(object_path(r))
               /\ FileAt(object_path(r)) = Stored(r)

\* p is a PUT answered Created and g the GET that arrived next, under the
\* same name, and is answered.
RoundTrip(p, g) ==
    /\ p.op = "put" /\ p.pc = "done" /\ p.outcome = "Created"
    /\ g.op = "get" /\ g.pc = "done"
    /\ g.seq = p.seq + 1
    /\ g.object_id = p.object_id

\* C4: after a PUT of hash h with declared kind k, declared size n and body
\* b was answered Created, the GET of h that follows is answered 200 with
\* Object-Type k, Object-Size n and a body equal to b.
C4_PutGetRoundTrip ==
    \A i \in Slots, j \in Slots :
        RoundTrip(reqs[i], reqs[j])
        => /\ reqs[j].outcome = "Ok"
           /\ reqs[j].status = StatusCode_OK
           /\ reqs[j].rtype = Some(ObjectType_to_str(reqs[i].object_type))
           /\ reqs[j].rsize = Some(to_string(reqs[i].object_size))
           /\ reqs[j].body = reqs[i].payload

\* An index whose two-byte body begins with NUL went round, and so did an
\* empty tree and a blob.
C4_RoundTripHappens ==
    \E i \in Slots, j \in Slots :
        /\ RoundTrip(reqs[i], reqs[j])
        /\ reqs[i].object_type = "Index"
        /\ reqs[i].payload = <<NUL, LOWER_A>>
        /\ reqs[j].body = <<NUL, LOWER_A>>

\* C5: once a PUT of hash h was answered Created, the file at h's path is
\* prefix || body in every later state, whatever requests run later or at
\* the same time.
C5_StoredObjectsStay ==
    \A s \in Slots :
        LET r == reqs[s]
        IN  (r.op = "put" /\ r.pc = "done" /\ r.outcome = "Created")
            => /\ path_exists(object_path(r))
               /\ FileAt(object_path(r)) = Stored(r)

\* p and q are two answered uploads of one hash that both passed the
\* lookup and both carried the object's content to the end.
DoubledUpload(p, q) ==
    /\ PutAnswered(p) /\ PutAnswered(q)
    /\ p.seq < q.seq
    /\ p.object_id = q.object_id
    /\ Len(p.payload) = p.object_size /\ DigestMatches(p)
    /\ Len(q.payload) = q.object_size /\ DigestMatches(q)

\* C6: when two uploads of the same hash that both carry the correct
\* content have both finished, the store holds exactly prefix || body at
\* the hash's path, for every interleaving of the two.
C6_DoubledUploadStored ==
    \A i \in Slots, j \in Slots :
        DoubledUpload(reqs[i], reqs[j])
        => /\ path_exists(object_path(reqs[i]))
           /\ FileAt(object_path(reqs[i])) = Stored(reqs[i])

\* The same where the shard directory of the hash exists.
DoubledUploadStoredInShard ==
    \A i \in Slots, j \in Slots :
        (DoubledUpload(reqs[i], reqs[j]) /\ object_path(reqs[i])[1] \in dirs)
        => /\ path_exists(object_path(reqs[i]))
           /\ FileAt(object_path(reqs[i])) = Stored(reqs[i])

\* C7: a GET that completes successfully has delivered a body of exactly
\* the Object-Size it reported.
C7_NoTruncatedBody ==
    \A s \in Slots :
        LET r == reqs[s]
        IN  (r.op = "get" /\ r.pc = "done" /\ r.outcome = "Ok")
            => r.rsize = Some(to_string(Len(r.body)))

\* get_object looks up a well-formed hash and finds no file at its path.
GetFindsNothing(s) ==
    /\ reqs[s].op = "get" /\ reqs[s].pc = "check"
    /\ reqs'[s] # reqs[s]
    /\ reqs'[s].hash # None
    /\ get_path(Unwrap(reqs'[s].hash)) \notin DOMAIN files

\* C15: a GET for a well-formed hash at whose path no file exists is
\* answered at once with 204 (no object), carries no body byte and no
\* Object-Type or Object-Size, and leaves directories and files as they
\* were.
C15_GetOfAbsentObject ==
    [][\A s \in Slots :
          GetFindsNothing(s)
          => /\ reqs'[s].pc = "done"
             /\ reqs'[s].status = StatusCode_NO_CONTENT
             /\ reqs'[s].outcome = "NoContent"
             /\ reqs'[s].body = <<>>
             /\ reqs'[s].rtype = None /\ reqs'[s].rsize = None
             /\ files' = files /\ inodes' = inodes /\ dirs' = dirs]_vars

\* A GET of a well-formed hash has been answered 204 while an object of
\* another hash is stored.
C15_AbsentAnswered ==
    \E s \in Slots :
        /\ reqs[s].op = "get" /\ reqs[s].pc = "done"
        /\ reqs[s].status = StatusCode_NO_CONTENT
        /\ reqs[s].hash # None
        /\ ~path_exists(object_path(reqs[s]))
        /\ files # <<>>

\* The Object-Type and Object-Size headers of request r name a type and a
\* size.
HeadersUsable(r) ==
    /\ r.hdrType # None /\ ObjectType_from_str(Unwrap(r.hdrType)) # None
    /\ r.hdrSize # None /\ parse_u64(Unwrap(r.hdrSize)) # None

\* put_object checks a request for a well-formed hash at whose path no file
\* exists, and whose headers are missing or unusable.
PutLacksHeaders(s) ==
    /\ reqs[s].op = "put" /\ reqs[s].pc = "check"
    /\ reqs'[s] # reqs[s]
    /\ reqs'[s].hash # None
    /\ get_path(Unwrap(reqs'[s].hash)) \notin DOMAIN files
    /\ ~HeadersUsable(reqs[s])

\* C16: a PUT for a hash that is not stored, whose Object-Type or
\* Object-Size header is missing or does not parse, is answered 400 by the
\* step that checks it: nothing of the body has been taken, and no file or
\* directory is created or changed.
C16_BadHeadersRejectedBeforeBody ==
    [][\A s \in Slots :
          PutLacksHeaders(s)
          => /\ reqs'[s].pc = "done"
             /\ reqs'[s].status = StatusCode_BAD_REQUEST
             /\ reqs'[s].outcome \in {"MissingType", "InvalidType",
                                      "MissingSize", "InvalidSize"}
             /\ reqs'[s].payload = <<>> /\ reqs'[s].length = 0
             /\ reqs'[s].hasher = <<>>
             /\ files' = files /\ inodes' = inodes /\ dirs' = dirs]_vars

\* A PUT with a type and a size that does not parse has been rejected, and
\* no file is at its path.
C16_InvalidSizeRejected ==
    \E s \in Slots :
        /\ reqs[s].op = "put" /\ reqs[s].pc = "done"
        /\ reqs[s].outcome = "InvalidSize"
        /\ reqs[s].hdrType = Some(INDEX_KEY)
        /\ reqs[s].hdrSize = Some(<<120>>)
        /\ ~path_exists(object_path(reqs[s]))

\* Each of the four header rejections is given for the header it names.
HeaderRejectionsNamed ==
    \A s \in Slots :
        (reqs[s].op = "put" /\ reqs[s].pc = "done")
        => /\ reqs[s].outcome = "MissingType" => reqs[s].hdrType = None
           /\ reqs[s].outcome = "InvalidType"
                => ObjectType_from_str(Unwrap(reqs[s].hdrType)) = None
           /\ reqs[s].outcome = "MissingSize" => reqs[s].hdrSize = None
           /\ reqs[s].outcome = "InvalidSize"
                => parse_u64(Unwrap(reqs[s].hdrSize)) = None

\* No other upload that got as far as its lookup names the hash of the
\* upload in slot s.
OnlyUploadOfItsHash(s) ==
    \A q \in Slots \ {s} :
        (reqs[q].op = "put" /\ reqs[q].hash # None)
        => ~Hash_eq(Unwrap(reqs[q].hash), Unwrap(reqs[s].hash))

\* What an upload that runs with no other upload ends with, and what it
\* leaves at its path: a file that was there is reported; unusable headers
\* are rejected and no file is made; without the shard directory the upload
\* fails and no file is made; a stream that fails leaves what was received;
\* a mismatch is reported and the file removed; otherwise prefix || body is
\* stored and CREATED is answered.
EndsAsAlone(r) ==
    LET path == object_path(r)
    IN  CASE r.outcome = "AlreadyExists" -> path_exists(path)
          [] r.outcome \in {"MissingType", "InvalidType", "MissingSize", "InvalidSize"} ->
                ~HeadersUsable(r) /\ ~path_exists(path)
          [] r.outcome = "InternalError" ->
                /\ HeadersUsable(r)
                /\ \/ path[1] \notin dirs /\ ~path_exists(path)
                   \/ /\ r.err = "StreamError" /\ path[1] \in dirs
                      /\ path_exists(path) /\ FileAt(path) = Stored(r)
          [] r.outcome \in {"LengthDoesntMatch", "HashDoesntMatch"} ->
                /\ HeadersUsable(r) /\ path[1] \in dirs
                /\ r.outcome = Verdict(r)
                /\ ~path_exists(path)
          [] r.outcome = "Created" ->
                /\ HeadersUsable(r) /\ path[1] \in dirs
                /\ Verdict(r) = "Ok"
                /\ path_exists(path) /\ FileAt(path) = Stored(r)
          [] OTHER -> FALSE

UploadsEndAsAlone ==
    \A s \in Slots :
        (reqs[s].op = "put" /\ reqs[s].pc = "done" /\ reqs[s].hash # None
           /\ OnlyUploadOfItsHash(s))
        => EndsAsAlone(reqs[s])

\* The bytes of the file at path in a store, None where there is no file.
ContentIn(fls, ino, path) ==
    IF path \in DOMAIN fls THEN Some(ino[fls[path]]) ELSE None

\* A step that makes, writes, truncates or removes the file at a path is a
\* step of an upload to the hash of that path.
OnlyOwnFileTouched ==
    \A path \in (DOMAIN files) \cup (DOMAIN files') :
        ContentIn(files', inodes', path) # ContentIn(files, inodes, path)
        => \E s \in Slots :
              /\ reqs'[s] # reqs[s]
              /\ reqs[s].op = "put" /\ reqs[s].hash # None
              /\ object_path(reqs[s]) = path

\* C17: uploads of different hashes that run at the same time do not
\* disturb one another: an upload that is the only one of its hash ends,
\* in every interleaving, with the outcome and the file it has when it runs
\* alone, and no step of an upload changes a file other than the one at its
\* own hash's path.
C17_UploadsOfDifferentHashes ==
    []UploadsEndAsAlone /\ [][OnlyOwnFileTouched]_vars

\* An upload has been answered CREATED while an upload of another hash,
\* which arrived before it, is still receiving its body.
C17_TwoUploadsOverlapped ==
    \E s \in Slots, q \in Slots :
        /\ reqs[s].op = "put" /\ reqs[q].op = "put"
        /\ reqs[s].hash # None /\ reqs[q].hash # None
        /\ ~Hash_eq(Unwrap(reqs[s].hash), Unwrap(reqs[q].hash))
        /\ reqs[s].pc = "done" /\ reqs[s].outcome = "Created"
        /\ reqs[q].pc = "stream" /\ reqs[q].length > 0
        /\ reqs[q].seq < reqs[s].seq

\* The GET in slot s has been answered for a file that is stored.
GetOfStoredAnswered(s) ==
    /\ reqs[s].op = "get" /\ reqs[s].pc = "done"
    /\ reqs[s].hash # None
    /\ path_exists(object_path(reqs[s]))
    /\ reqs[s].outcome # "NoContent"

\* The answer carries the kind and size of the file's header and, as its
\* body, the bytes of the file after the header's NUL.
AnswersWithObject(r, content) ==
    LET index == position(content, NUL)
        value == read_header_from_slice(SubSeq(content, 1, index - 1))
    IN  /\ index > 0 /\ value # None
        /\ r.status = StatusCode_OK /\ r.outcome = "Ok"
        /\ r.rtype = Some(ObjectType_to_str(Unwrap(value)[1]))
        /\ r.rsize = Some(to_string(Unwrap(value)[2]))
        /\ r.body = SubSeq(content, index + 1, Len(content))

\* C21: however the reads of a stored object's file are cut, the NUL of
\* the header in the first read or not, the download reports the kind and
\* size of the header and sends the bytes after the header's NUL.
C21_EveryChunkingSameResult ==
    \A s \in Slots :
        GetOfStoredAnswered(s)
        => AnswersWithObject(reqs[s], FileAt(object_path(reqs[s])))

\* The bytes of content after its first NUL.
PastFirstNul(content) == SubSeq(content, position(content, NUL) + 1, Len(content))

\* The download in slot s has parsed the header: what it has sent and what
\* it holds in its buffer are, in this order, the bytes of the file after
\* the first NUL up to where the file has been read; and when it has ended,
\* it ended well and has sent all of them.
ForwardsPastFirstNul(s) ==
    LET r == reqs[s]
        content == FileAt(object_path(r))
    IN  /\ r.pc = "body"
           => r.body \o r.buf
                = SubSeq(content, position(content, NUL) + 1, r.pos)
        /\ r.pc = "done"
           => (r.outcome = "Ok" /\ r.body = PastFirstNul(content))

\* A download that has parsed the header keeps it.
HeaderKept ==
    \A s \in Slots :
        (reqs[s].op = "get" /\ reqs[s].codec # None) => reqs'[s].codec = reqs[s].codec

\* C22: once a download has parsed the header, the chunks it sends are,
\* put together, exactly the bytes of the file after the first NUL: what
\* was buffered past the NUL is sent, the two next() calls of get_object
\* lose, repeat or reorder nothing, later NUL bytes pass through, and the
\* decoder keeps the header it parsed.
C22_BodyIsFilePastFirstNul ==
    /\ [](\A s \in Slots :
            (reqs[s].op = "get" /\ reqs[s].codec # None) => ForwardsPastFirstNul(s))
    /\ [][HeaderKept]_vars

\* A download has parsed the header from a first read that went past the
\* NUL and stopped before the end of the file: the bytes past the NUL wait
\* in the buffer, and a NUL byte of the body is still to be read.
C22_RemainderBuffered ==
    \E s \in Slots :
        /\ reqs[s].op = "get" /\ reqs[s].pc = "body"
        /\ reqs[s].codec # None
        /\ reqs[s].buf # <<>> /\ reqs[s].body = <<>>
        /\ reqs[s].pos < Len(FileAt(object_path(reqs[s])))
        /\ NUL \in {FileAt(object_path(reqs[s]))[i] :
                      i \in (reqs[s].pos + 1)..Len(FileAt(object_path(reqs[s])))}

\* No upload is between its arrival and its answer.
NoUploadInProgress ==
    \A s \in Slots : reqs[s].op = "put" => ~Active(reqs[s])

\* content is the prefix of some type for some size, followed by that many
\* bytes.
IsPrefixAndBody(content) ==
    \E t \in ObjectType, n \in 0..Len(content) :
        LET prefix == get_object_prefix(t, n)
        IN  /\ Len(content) = Len(prefix) + n
            /\ SubSeq(content, 1, Len(prefix)) = prefix

\* The file at path is an object whose digest is the hash path stands for.
HoldsWholeObject(path) ==
    /\ IsPrefixAndBody(FileAt(path))
    /\ get_path(Hash_from_hasher(FileAt(path))) = path

\* C20: whenever no upload is in progress, every file of the store is
\* prefix || body of an object whose digest is the hash of the file's
\* path, whatever PUT requests were answered before and however they
\* ended, a failed body stream included.
C20_StoreHoldsOnlyWholeObjects ==
    NoUploadInProgress => \A path \in DOMAIN files : HoldsWholeObject(path)

\* The same where no answered upload lost its body stream.
WholeObjectsWithoutStreamErrors ==
    (NoUploadInProgress /\ \A s \in Slots : reqs[s].err # "StreamError")
    => \A path \in DOMAIN files : HoldsWholeObject(path)

\* The request in slot s is a PUT that takes its lookup step, its name
\* parses to a hash, and a file is at that hash's path.
PutFindsObject(s) ==
    /\ reqs[s].op = "put" /\ reqs[s].pc = "check"
    /\ reqs'[s] # reqs[s]
    /\ reqs'[s].hash # None
    /\ get_path(Unwrap(reqs'[s].hash)) \in DOMAIN files

\* C25: the assertion at the start of read_body_to_file, that no file is
\* at the object's path, holds whenever an upload reaches it, in every
\* interleaving of uploads: no upload task panics.
C25_AssertionHolds ==
    /\ \A s \in Slots : reqs[s].outcome # "Panicked"
    /\ \A s \in Slots :
          (reqs[s].op = "put" /\ reqs[s].pc = "assert")
          => ~path_exists(object_path(reqs[s]))

\* The hashes of the three presence sets.
Present == presence.indexes \cup presence.trees \cup presence.blobs

\* C27: no step of a PUT or GET changes the three presence sets, which
\* stay what the startup scan made them; the hash of an upload answered
\* CREATED is in none of them.
C27_PresenceSetsFrozen ==
    /\ [][presence' = presence]_vars
    /\ [](\A s \in Slots :
            (reqs[s].op = "put" /\ reqs[s].outcome = "Created")
            => Unwrap(reqs[s].hash).hash \notin Present)

\* An upload has been answered CREATED, its file is stored, its hash is in
\* no presence set, and a download of it has been answered with the object.
C27_StoredButNotPresent ==
    \E s \in Slots, q \in Slots :
        /\ reqs[s].op = "put" /\ reqs[s].outcome = "Created"
        /\ path_exists(object_path(reqs[s]))
        /\ Unwrap(reqs[s].hash).hash \notin Present
        /\ reqs[q].op = "get" /\ reqs[q].outcome = "Ok"
        /\ reqs[q].object_id = reqs[s].object_id

\* The hash a stored file's name stands for.
HashOfFile(path) == Unwrap(from_string(path[1] \o path[2])).hash

\* The presence set of the kind that the header of the file at path
\* declares.
SetOfOwnKind(path) ==
    LET kind == Unwrap(read_header_from_file(FileAt(path)).header)[1]
    IN  CASE kind = "Index" -> presence.indexes
          [] kind = "Tree" -> presence.trees
          [] kind = "Blob" -> presence.blobs

ScanPartitions ==
    /\ \A path \in DOMAIN files : HashOfFile(path) \in SetOfOwnKind(path)
    /\ Present = {HashOfFile(path) : path \in DOMAIN files}
    /\ presence.indexes \cap presence.trees = {}
    /\ presence.indexes \cap presence.blobs = {}
    /\ presence.trees \cap presence.blobs = {}

\* C28: after the startup scan of a store whose files have names of 128
\* hex digits and well-formed headers, every stored hash is in the
\* presence set of the kind its file's header declares and in no other:
\* the three sets are pairwise disjoint and their union is the set of the
\* stored hashes.
C28_PresenceSetsPartition == ScanPartitions

\* The same for the stores in which no two files are named by spellings of
\* one hash.
ScanPartitionsOneSpelling ==
    (\A p \in DOMAIN files, q \in DOMAIN files :
        HashOfFile(p) = HashOfFile(q) => p = q)
    => ScanPartitions

\* C24: when a PUT is answered that the object already exists, the file at
\* the hash's path is at that moment a whole object of that hash, prefix ||
\* body, and not a file that another upload is still writing.
C24_DuplicateOnlyForWholeObject ==
    [][\A s \in Slots :
          PutFindsObject(s)
          => /\ HoldsWholeObject(get_path(Unwrap(reqs'[s].hash)))
             /\ \A q \in Slots \ {s} :
                   (reqs[q].op = "put" /\ reqs[q].pc \in {"stream", "remove"})
                   => reqs[q].fd # files[get_path(Unwrap(reqs'[s].hash))]]_vars

\* The same when requests come one at a time and no body stream fails.
DuplicateOnlyForWholeObjectAlone ==
    [][\A s \in Slots :
          (PutFindsObject(s) /\ \A q \in Slots : reqs[q].err # "StreamError")
          => HoldsWholeObject(get_path(Unwrap(reqs'[s].hash)))]_vars

\* C11: a PUT to a hash at which a file is stored is answered with the
\* duplicate outcome (200, "Object already exists"), whatever its headers
\* and body, and its handling changes no file and no directory of the
\* store; so a repeated PUT leaves what the first one stored.
C11_DuplicatePutIsNoOp ==
    [][\A s \in Slots :
          PutFindsObject(s)
          => /\ reqs'[s].pc = "done"
             /\ reqs'[s].outcome = "AlreadyExists"
             /\ reqs'[s].status = StatusCode_OK
             /\ files' = files /\ inodes' = inodes /\ dirs' = dirs]_vars

\* A PUT without an Object-Type header was answered as a duplicate, and the
\* object stored at startup is still there.
C11_DuplicateAnswered ==
    \E s \in Slots :
        /\ reqs[s].op = "put" /\ reqs[s].pc = "done"
        /\ reqs[s].outcome = "AlreadyExists"
        /\ reqs[s].hdrType = None
        /\ path_exists(object_path(reqs[s]))
        /\ FileAt(object_path(reqs[s])) = TargetContent(<<"Index", <<LOWER_A>>>>)

(***************************************************************************)
(* Properties of commit and restore.                                       *)
(***************************************************************************)
\* C8: committing the same unchanged directory twice into the same store
\* prints the same Index hash both times, and the second commit creates no
\* file in the store.
C8_CommitIdempotent ==
    \A k \in 2..Len(log) :
        /\ log[k].index = log[k-1].index
        /\ log[k].created = {}

\* C8, as the code has it: a commit of the unchanged directory that follows
\* another has the same root Tree hash and creates no Tree and no Blob
\* file.  When the clock read the same both times the Index hash is the
\* same and nothing is created; when it read differently the Index hash
\* differs and the one file created is the new Index.
C8_SecondCommitAddsOnlyIndex ==
    \A k \in 2..Len(log) :
        /\ log[k].tree = log[k-1].tree
        /\ log[k].timestamp = log[k-1].timestamp
             => (log[k].index = log[k-1].index /\ log[k].created = {})
        /\ log[k].timestamp # log[k-1].timestamp
             => /\ log[k].index # log[k-1].index
                /\ log[k].created = {get_path(Unwrap(from_string(log[k].index)))}

\* Two commits of a directory of two entries, one of them a directory that
\* holds a file, at different readings of the clock.
C8_TwoCommitsApart ==
    /\ Len(log) >= 2
    /\ log[2].timestamp # log[1].timestamp
    /\ Len(source) = 2
    /\ \E i \in 1..2 : source[i].kind = "dir" /\ source[i].entries # <<>>
    /\ Cardinality(log[1].created) >= 4

\* A directory as what it holds, whatever the order: names, kinds,
\* contents, and the same of its sub-directories.
RECURSIVE DirSet(_)
DirSet(entries) ==
    { <<entries[i].name, entries[i].kind, entries[i].content,
        DirSet(entries[i].entries)>> : i \in 1..Len(entries) }

\* Every name in the directory, at every depth, is UTF-8.
RECURSIVE NamesAreUtf8(_)
NamesAreUtf8(entries) ==
    \A i \in 1..Len(entries) :
        from_utf8_ok(entries[i].name) /\ NamesAreUtf8(entries[i].entries)

\* C9: restore of the Index hash that commit printed, into an empty or
\* missing destination, reproduces the source: the same names, the same
\* nesting, the same bytes in every file.
C9_RestoreReproducesSource ==
    dest.restored # None
    => /\ ~dest.panicked
       /\ DirSet(dest.entries) = DirSet(source)

\* The same for the sources whose names are UTF-8.
RestoreReproducesUtf8Names ==
    (dest.restored # None /\ NamesAreUtf8(source))
    => /\ ~dest.panicked
       /\ DirSet(dest.entries) = DirSet(source)

\* The objects a commit asks to write have different hashes when their
\* bytes differ.
NoDigestCollision ==
    \A t \in 0..MaxClock :
        LET index == Index_from_path(DirNode(<<114>>, source), t)
            writes == write_index_to_folder(index, Index_get_hash(index))
        IN  \A i \in 1..Len(writes), j \in 1..Len(writes) :
                writes[i][2] # writes[j][2] => ~Hash_eq(writes[i][1], writes[j][1])

\* The index commit builds for a directory with these entries, at clock
\* reading t.
IndexOf(entries, t) == Index_from_path(DirNode(<<114>>, entries), t)

\* The file at the root (j = 0) or in the i-th entry, a directory (j = 1).
IsFileAt(entries, i, j) ==
    IF j = 0 THEN entries[i].kind = "file"
    ELSE entries[i].kind = "dir" /\ Len(entries[i].entries) >= j

ContentAt(entries, i, j) ==
    IF j = 0 THEN entries[i].content ELSE entries[i].entries[j].content

\* entries with the content of that file replaced by c.
WithContent(entries, i, j, c) ==
    IF j = 0 THEN [entries EXCEPT ![i].content = c]
    ELSE [entries EXCEPT ![i].entries[j].content = c]

\* The hashed object of that file in the index.
BlobAt(index, i, j) ==
    IF j = 0 THEN index.tree.inner.contents[i]
    ELSE index.tree.inner.contents[i].inner.contents[j]

\* The hashes differ along the path from that file to the index.
HashesDifferAlong(before, after, i, j) ==
    /\ ~Hash_eq(BlobAt(before, i, j).hash, BlobAt(after, i, j).hash)
    /\ ~Hash_eq(before.tree.inner.contents[i].hash, after.tree.inner.contents[i].hash)
    /\ ~Hash_eq(before.tree.hash, after.tree.hash)
    /\ ~Hash_eq(Index_get_hash(before), Index_get_hash(after))

RECURSIVE TreeHashes(_)
TreeHashes(tree) ==
    {tree.hash}
      \cup UNION {IF tree.inner.contents[i].kind = "Tree"
                  THEN TreeHashes(tree.inner.contents[i])
                  ELSE {tree.inner.contents[i].hash} :
                  i \in 1..Len(tree.inner.contents)}

\* The hashes of every object constructed for an index.
ConstructedHashes(index) == {Index_get_hash(index)} \cup TreeHashes(index.tree)

\* C18: after a commit has returned, the Index, every Tree and every Blob
\* constructed for it has a file at the path of its hash (directory of the
\* first two hex characters, file of the other 126), whether the commit
\* wrote the file or found it there.
C18_CommitStoresEveryObject ==
    \A k \in 1..Len(log) :
        \A index \in {IndexOf(source, log[k].timestamp)} :
            /\ Index_get_hash(index).hash_string = log[k].index
            /\ \A hash \in ConstructedHashes(index) :
                   /\ get_path(hash) \in DOMAIN files
                   /\ get_path(hash)[1] \in dirs

\* A second commit has returned that found the trees and blobs of the
\* first in the cache, one of them the blob of a file in a sub-directory.
C18_CommitFoundObjects ==
    /\ Len(log) >= 2
    /\ \E i \in 1..Len(source) : IsFileAt(source, i, 1)
    /\ Cardinality(log[2].created) = 1
    /\ Cardinality(log[1].created) >= 3

\* Every file of the store before is in the store after, the same file
\* with the same bytes.
FilesKept(before, after) ==
    \A path \in DOMAIN before.files :
        /\ path \in DOMAIN after.files
        /\ after.files[path] = before.files[path]
        /\ after.inodes[after.files[path]] = before.inodes[before.files[path]]

\* The i-th write of writes, made on the store st after the writes before
\* it, keeps every file and adds at most the file of its own hash, and
\* that only where there was none.
WriteKeepsFiles(st, writes, i) ==
    \A before \in {WriteEach(st, SubSeq(writes, 1, i - 1))} :
    \A after \in {write_if_not_exists(before, writes[i][1], writes[i][2])} :
        /\ FilesKept(before, after)
        /\ (DOMAIN after.files) \ (DOMAIN before.files) \subseteq {get_path(writes[i][1])}
        /\ get_path(writes[i][1]) \in DOMAIN before.files
             => (after.files = before.files /\ after.inodes = before.inodes)

\* C26: in a commit made on the store as it is, after any commits before
\* it, every call of write_if_not_exists leaves the files that exist as
\* they are and writes a file only where there is none; and the files that
\* commits have created are each created by one commit alone.
C26_ExistingFilesNeverRewritten ==
    /\ \A index \in {IndexOf(source, now)} :
       \A writes \in {write_index_to_folder(index, Index_get_hash(index))} :
          \A i \in 1..Len(writes) :
              WriteKeepsFiles([dirs |-> dirs, files |-> files, inodes |-> inodes],
                              writes, i)
    /\ \A j \in 1..Len(log), k \in 1..Len(log) :
          j # k => log[j].created \cap log[k].created = {}

\* Two commits of a directory that holds two files of the same content
\* have been made: the first wrote the blob once, the second wrote the
\* index alone.
C26_CommitsSkippedWrites ==
    /\ Len(log) >= 2
    /\ Len(source) = 2
    /\ source[1].kind = "file" /\ source[2].kind = "file"
    /\ source[1].content = source[2].content
    /\ Cardinality(log[1].created) = 3
    /\ Cardinality(log[2].created) = 1

\* The names a file may be given: those of the model's directories and the
\* single byte 0xFE.
NewNames == Names \cup {<<254>>}

NameAt(entries, i, j) ==
    IF j = 0 THEN entries[i].name ELSE entries[i].entries[j].name

\* The names beside that file, in its directory.
SiblingNames(entries, i, j) ==
    IF j = 0 THEN {entries[k].name : k \in (1..Len(entries)) \ {i}}
    ELSE {entries[i].entries[k].name : k \in (1..Len(entries[i].entries)) \ {j}}

\* entries with that file renamed to n.
WithName(entries, i, j, n) ==
    IF j = 0 THEN [entries EXCEPT ![i].name = n]
    ELSE [entries EXCEPT ![i].entries[j].name = n]

\* The hash of the Tree that holds that file.
TreeAbove(index, i, j) ==
    IF j = 0 THEN index.tree.hash ELSE index.tree.inner.contents[i].hash

\* The file keeps its Blob hash under its new name and the Tree that holds
\* it gets another hash.
RenameShows(before, after, i, j) ==
    /\ BlobAt(before, i, j).hash = BlobAt(after, i, j).hash
    /\ ~Hash_eq(TreeAbove(before, i, j), TreeAbove(after, i, j))

\* C14: with any one file of the committed directory renamed and its
\* content kept, the file's Blob hash is the same and the hash of the Tree
\* that holds the file is another.
C14_RenameKeepsBlobChangesTree ==
    \A i \in 1..Len(source), j \in 0..1, n \in NewNames :
        (IsFileAt(source, i, j) /\ n # NameAt(source, i, j)
           /\ n \notin SiblingNames(source, i, j))
        => \A before \in {IndexOf(source, now)} :
           \A after \in {IndexOf(WithName(source, i, j, n), now)} :
              RenameShows(before, after, i, j)

\* The same where the old and the new name are UTF-8.
RenameKeepsBlobChangesTreeUtf8 ==
    \A i \in 1..Len(source), j \in 0..1, n \in NewNames :
        (IsFileAt(source, i, j) /\ n # NameAt(source, i, j)
           /\ n \notin SiblingNames(source, i, j)
           /\ from_utf8_ok(n) /\ from_utf8_ok(NameAt(source, i, j)))
        => \A before \in {IndexOf(source, now)} :
           \A after \in {IndexOf(WithName(source, i, j, n), now)} :
              RenameShows(before, after, i, j)

\* restore_directory has run on the destination in this step.
RestoreRan == dest.restored = None /\ dest'.restored # None

\* The destination is as it was: what it is, and what it holds.
DestinationKept ==
    /\ dest'.exists = dest.exists /\ dest'.is_dir = dest.is_dir
    /\ dest'.entries = dest.entries

\* C19: a restore into a destination that exists and is not a directory
\* fails with "must be a valid directory", one into a directory that holds
\* an entry fails with "must be an empty directory", and both leave the
\* destination as it was; a restore into a destination that does not exist
\* makes it a directory.
C19_RestoreDestinationChecked ==
    [][RestoreRan
       => /\ (dest.exists /\ ~dest.is_dir)
               => /\ dest'.panicked
                  /\ dest'.message = "Path provided must be a valid directory"
                  /\ DestinationKept
          /\ (dest.exists /\ dest.is_dir /\ dest.entries # <<>>)
               => /\ dest'.panicked
                  /\ dest'.message = "Path provided must be an empty directory"
                  /\ DestinationKept
          /\ ~dest.exists => (dest'.exists /\ dest'.is_dir)]_vars

\* A restore of a committed index into a directory that holds a file has
\* failed.
C19_NonEmptyRefused ==
    /\ dest.restored # None /\ dest.panicked
    /\ dest.is_dir /\ dest.entries # <<>>
    /\ \E k \in 1..Len(log) : dest.restored = Some(log[k].index)

\* A restore into a destination that is a file has failed.
RestoreIntoFileRefused ==
    dest.restored # None /\ dest.exists /\ ~dest.is_dir /\ dest.panicked

\* text is "<blob|tree|index> <decimal-size>".
IsHeaderText(text) ==
    \E t \in ObjectType :
        LET key == ObjectType_to_str(t) \o <<SPACE>>
        IN  /\ Len(text) > Len(key)
            /\ SubSeq(text, 1, Len(key)) = key
            /\ \A i \in (Len(key) + 1)..Len(text) : IsDigit(text[i])

\* read_header_from_file returns, and returns no header, for a file with
\* no NUL and for one whose text before the first NUL is no header.
HeaderRefused(content) ==
    LET index == position(content, NUL)
    IN  (index = 0 \/ ~IsHeaderText(SubSeq(content, 1, index - 1)))
        => /\ ~read_header_from_file(content).panicked
           /\ read_header_from_file(content).header = None

\* C23: read_header_from_file never aborts, an empty file included, and
\* returns no header for every file that contains no NUL and for every
\* file whose text before the first NUL is not
\* "<blob|tree|index> <decimal-size>".
C23_CorruptHeaderRefused ==
    \A path \in DOMAIN files :
        /\ ~read_header_from_file(FileAt(path)).panicked
        /\ HeaderRefused(FileAt(path))

\* The same for the files that hold a NUL and whose size is written with
\* digits alone.
HeaderRefusedWithNul ==
    \A path \in DOMAIN files :
        (NUL \in {FileAt(path)[i] : i \in 1..Len(FileAt(path))}
           /\ PLUS \notin {FileAt(path)[i] : i \in 1..Len(FileAt(path))})
        => HeaderRefused(FileAt(path))

\* A header is returned for the files that hold one.
HeaderReturned ==
    \A path \in DOMAIN files :
        LET content == FileAt(path)
            index == position(content, NUL)
        IN  (index > 0 /\ IsHeaderText(SubSeq(content, 1, index - 1)))
            => /\ ~read_header_from_file(content).panicked
               /\ read_header_from_file(content).header # None

\* C12: every entry point that parses a hash rejects a text that is not
\* 128 hexadecimal characters with an InvalidHash error, and does not
\* abort: here the client's restore and cat, given such a text.
C12_InvalidHashRejected ==
    /\ (dest.restored # None /\ dest.is_dir /\ dest.entries = <<>>
          /\ from_string(Unwrap(dest.restored)) = None)
        => (~dest.panicked /\ dest.message = "InvalidHash")
    /\ (cat.hash # None /\ from_string(Unwrap(cat.hash)) = None)
        => ~cat.panicked

\* The server's two handlers do so: a request whose name is no hash is
\* answered 400 "Invalid Sha512 hash".
InvalidHashRejectedByServer ==
    \A s \in Slots :
        (reqs[s].pc = "done" /\ reqs[s].hash = None)
        => /\ reqs[s].outcome = "InvalidHash"
           /\ reqs[s].status = StatusCode_BAD_REQUEST

(***************************************************************************)
(* Properties of Hash.                                                     *)
(***************************************************************************)
\* C10: two Hash values that are equal (the same 64 raw bytes) resolve to
\* the same store path under get_path, whatever text or bytes they were
\* built from.
C10_EqualHashesSamePath ==
    (ha # None /\ hb # None /\ Hash_eq(Unwrap(ha), Unwrap(hb)))
    => get_path(Unwrap(ha)) = get_path(Unwrap(hb))

\* The same for the values built from raw bytes or from a digest.
EqualHashesSamePathFromBytes ==
    (ha # None /\ hb # None /\ Hash_eq(Unwrap(ha), Unwrap(hb))
       /\ Unwrap(ha) = Hash_from_bytes(Unwrap(ha).hash)
       /\ Unwrap(hb) = Hash_from_bytes(Unwrap(hb).hash))
    => get_path(Unwrap(ha)) = get_path(Unwrap(hb))

====
